---- MODULE Spec2Model ----
(***************************************************************************)
(* Generalized-alpha DAE integrators of cardillo/solver/genAlphaDAE.py.    *)
(*                                                                         *)
(* The model follows solve() / step() / R() / update() of                  *)
(*   "NC"    = GenAlphaFirstOrderVelocityGGLNormalContacts                 *)
(*   "GGL"   = GenAlphaFirstOrderVelocityGGL                               *)
(*   "Vel"   = GenAlphaFirstOrderVelocity                                  *)
(*   "FOPos" = GenAlphaFirstOrderPosition                                  *)
(*   "Pos"   = GenAlphaDAEPos                                              *)
(*   "Acc"   = GenAlphaDAEAcc                                              *)
(* statement by statement.  Numbers are integers: with rho_inf = 1 and     *)
(* dt = 2 every generalized-alpha coefficient product is an exact integer, *)
(* so the rational formulas of the code are evaluated without rounding.    *)
(* The mechanical Model the integrators consume is a point mass (one       *)
(* coordinate, one velocity) under gravity above nla_N nested floors.      *)
(* Every function of this Model is affine, so the finite-difference        *)
(* Jacobian is the exact one and the sparse solve of the Newton update is  *)
(* evaluated exactly, by Cramer's rule.  The bodies of the Model define    *)
(* q_ddot (as beams/spatial/DirectorAxisAngle.py does, returning u_dot, or *)
(* as beams/spatial/SE3.py does, raising) or do not (has_q_ddot).          *)
(* GenAlphaDAEAcc keeps qk, uk, ak,                                        *)
(* a_bark, la_gk, la_gammak: here yk is (qk, uk), xk is (ak, la_gk,        *)
(* la_gammak) and the velocity slot of vk is a_bark.                       *)
(***************************************************************************)
EXTENDS Integers, Sequences, FiniteSets, TLC

VARIABLES
    cfg,        \* constructor arguments and Model data (fixed after Init)
    pc,         \* position in __init__ / solve()
    exc,        \* exception that ended the run ("none" while running)
    report,     \* what the RuntimeError message of solve() reports
    tk, xk,     \* self.tk, self.xk
    yk, y_dotk, vk, \* self.yk, self.y_dotk, self.vk
    uk,         \* self.uk (NC: read by R as previous velocity)
    la_Nk, la_Nbark,   \* self.la_Nk, self.la_Nbark
    idx,        \* self.Ai1, self.Bi1, self.Ci1 (set: assigned at least once)
    k,          \* loop index of solve()
    tk1, xk1,   \* locals of solve(): time and working vector of the step
    R,          \* last residual returned to step(): rows [v, w]
    error, converged, j,   \* locals of step()
    loc,        \* locals of solve() after update(store=True): qk1, uk1, ...
    out,        \* the output lists t, q, u, ... of solve()
    ev,         \* events of the current time step, in order
    assigned,   \* attributes of self assigned while accepting the last step
    maskLog,    \* index sets produced by each mask update of the current step
    probe       \* a call of one method on its own: stage, arguments, results

vars == <<cfg, pc, exc, report, tk, xk, yk, y_dotk, vk, uk, la_Nk, la_Nbark,
          idx, k, tk1, xk1, R, error, converged, j, loc, out, ev,
          assigned, maskLog, probe>>

(***************************************************************************)
(* Bounds of the model.                                                    *)
(***************************************************************************)
MaxIter == 2
MaxT1 == 3
MaxContacts == 2
ValMax == 1
MaxTol == 3
MaxCalls == 4
MaxLen == 2

(***************************************************************************)
(* Constructor arguments and Model dimensions that are fixed here.         *)
(***************************************************************************)
dt == 2
t0 == 0
rho_inf == 1
nq == 1
nu == 1
Mass == 1
e_N == 1

\* self.nla_g, self.nla_gamma: the Model has no bilateral constraint, one on
\* position level, or one on velocity level
nla_g == IF cfg.bil = "g" THEN 1 ELSE 0
nla_gamma == IF cfg.bil = "gamma" THEN 1 ELSE 0

ny == nq + nu

\* self.nR_smooth: the 0-based index of the first contact row of R
nR_smooth == nq + nu + 3 * nla_g + nla_gamma

Classes == {"NC", "GGL", "Vel", "FOPos", "Pos", "Acc"}

nla_N == cfg.nla_N

\* self.nx
nx(cls, n) ==
    IF cls = "NC" THEN ny + 3 * nla_g + nla_gamma + 3 * n
    ELSE IF cls = "GGL" THEN ny + 2 * nla_g + nla_gamma
    ELSE IF cls \in {"Vel", "FOPos"} THEN ny + nla_g + nla_gamma
    ELSE IF cls = "Acc" THEN nu + nla_g + nla_gamma
    ELSE nq + nla_g + nla_gamma

(***************************************************************************)
(* numpy helpers                                                           *)
(***************************************************************************)
Abs(a) == IF a < 0 THEN -a ELSE a

RECURSIVE SumSeq(_)
SumSeq(s) == IF s = <<>> THEN 0 ELSE Head(s) + SumSeq(Tail(s))

RECURSIVE MaxAbs(_)
\* error_function = lambda x: np.max(np.abs(x))
MaxAbs(s) ==
    IF Len(s) = 1 THEN Abs(Head(s))
    ELSE IF Abs(Head(s)) > MaxAbs(Tail(s)) THEN Abs(Head(s)) ELSE MaxAbs(Tail(s))

\* x[lo:hi] with Python's 0-based half-open bounds
Slice(x, lo, hi) == [i \in 1..(hi - lo) |-> x[lo + i]]

\* x[lo:hi] = v
SetSlice(x, lo, hi, v) ==
    [i \in 1..Len(x) |-> IF i > lo /\ i <= hi THEN v[i - lo] ELSE x[i]]

Zeros(n) == [i \in 1..n |-> 0]

\* np.where(mask)[0], as 0-based indices in increasing order
RECURSIVE WhereFrom(_, _)
WhereFrom(mask, i) ==
    IF i > Len(mask) THEN <<>>
    ELSE IF mask[i] THEN <<i - 1>> \o WhereFrom(mask, i + 1)
    ELSE WhereFrom(mask, i + 1)

Where(mask) == WhereFrom(mask, 1)

\* ~mask
ComplementBug(mask) == mask
Complement(mask) == [i \in 1..Len(mask) |-> ~mask[i]]

\* a * b on boolean arrays
MaskAnd(a, b) == [i \in 1..Len(a) |-> a[i] /\ b[i]]

\* v[mask]: the entries of v where mask holds, in order
Select(v, mask) == LET w == Where(mask) IN [i \in 1..Len(w) |-> v[w[i] + 1]]

\* R[w.off + w.ind] = w.vals, on rows that record the value and what was written
Scatter(rows, w) ==
    [r \in 1..Len(rows) |->
        IF \E i \in 1..Len(w.ind) : w.off + w.ind[i] + 1 = r
        THEN [v |-> w.vals[CHOOSE i \in 1..Len(w.ind) : w.off + w.ind[i] + 1 = r],
              w |-> rows[r].w \cup {w.tag}]
        ELSE rows[r]]

\* the indexed assignments ws, applied to rows in program order
RECURSIVE ScatterAll(_, _)
ScatterAll(rows, ws) ==
    IF ws = <<>> THEN rows ELSE ScatterAll(Scatter(rows, Head(ws)), Tail(ws))

\* the assignment R[off + np.where(mask)[0]] = v[mask]
MaskedWrite(off, v, mask, tag) ==
    [off |-> off, ind |-> Where(mask), vals |-> Select(v, mask), tag |-> tag]

\* the assignment R[lo:hi] = vals
SliceWrite(lo, hi, vals, tag) ==
    [off |-> lo, ind |-> [i \in 1..(hi - lo) |-> i - 1], vals |-> vals, tag |-> tag]

\* np.zeros(self.nx)
ZeroRows(n) == [r \in 1..n |-> [v |-> 0, w |-> {}]]

Values(rows) == [r \in 1..Len(rows) |-> rows[r].v]

(***************************************************************************)
(* Generalized-alpha parameters, as exact fractions num / den.             *)
(***************************************************************************)
\* NC, Pos, Acc: alpha_m = (2 rho_inf - 1) / (rho_inf + 1);
\* GGL, Vel, FOPos: (3 rho_inf - 1) / (2 (rho_inf + 1))
alpha_m(cls) ==
    IF cls \in {"GGL", "Vel", "FOPos"} THEN <<3 * rho_inf - 1, 2 * (rho_inf + 1)>>
    ELSE <<2 * rho_inf - 1, rho_inf + 1>>

\* alpha_f = rho_inf / (rho_inf + 1)
alpha_f(cls) == <<rho_inf, rho_inf + 1>>

\* gamma = 0.5 + alpha_f - alpha_m
gamma(cls) ==
    LET f == alpha_f(cls)
        m == alpha_m(cls)
    IN <<f[2] * m[2] + 2 * f[1] * m[2] - 2 * m[1] * f[2], 2 * f[2] * m[2]>>

\* beta = 0.25 * (gamma + 0.5) ** 2
beta(cls) ==
    LET g == gamma(cls)
    IN <<(2 * g[1] + g[2]) * (2 * g[1] + g[2]), 16 * g[2] * g[2]>>

\* (alpha_f * a_k + (1 - alpha_f) * a_k1 - alpha_m * abar_k) / (1 - alpha_m)
AlphaBlend(cls, a_k, a_k1, abar_k) ==
    LET f == alpha_f(cls)
        m == alpha_m(cls)
    IN (f[1] * m[2] * a_k + (f[2] - f[1]) * m[2] * a_k1 - m[1] * f[2] * abar_k)
           \div (f[2] * (m[2] - m[1]))

\* a + dt * ((1 - gamma) * b_k + gamma * b_k1)
GammaStep(cls, a, b_k, b_k1) ==
    LET g == gamma(cls)
    IN a + (dt * ((g[2] - g[1]) * b_k + g[1] * b_k1)) \div g[2]

\* ((a_k1 - a_k) / dt - (1 - gamma) * b_k) / gamma
GammaStepInverse(cls, a_k, a_k1, b_k) ==
    LET g == gamma(cls)
    IN ((a_k1 - a_k) * g[2] - dt * (g[2] - g[1]) * b_k) \div (dt * g[1])

\* (alpha_m * abar_k + (1 - alpha_m) * abar_k1 - alpha_f * a_k) / (1 - alpha_f)
AlphaBlendInverse(cls, abar_k, abar_k1, a_k) ==
    LET f == alpha_f(cls)
        m == alpha_m(cls)
    IN (m[1] * f[2] * abar_k + (m[2] - m[1]) * f[2] * abar_k1 - f[1] * m[2] * a_k)
           \div (m[2] * (f[2] - f[1]))

\* a + dt**2 * ((0.5 - beta) * b_k + beta * b_k1)
BetaStep(cls, a, b_k, b_k1) ==
    LET b == beta(cls)
    IN a + (dt * dt * ((b[2] - 2 * b[1]) * b_k + 2 * b[1] * b_k1)) \div (2 * b[2])

(***************************************************************************)
(* The Model consumed by the integrators: a point mass above nested floors *)
(***************************************************************************)
\* model.q_dot(t, q, u)
q_dot_fn(t, q, u) == u

\* model.q_ddot(t, q, u, u_dot)
q_ddot_fn(t, q, u, u_dot) == u_dot

\* model.h(t, q, u)
h_fn(t, q, u) == -cfg.grav

\* model.g_N(t, q): gap to floor i, which lies at height -(i - 1)
g_N_fn(t, q) == [i \in 1..nla_N |-> q + (i - 1)]

\* model.xi_N(t, q, u_pre, u_post)
xi_N_fn(t, q, u_pre, u_post) == [i \in 1..nla_N |-> u_post + e_N * u_pre]

\* model.g_N_ddot(t, q, u, u_dot)
g_N_ddot_fn(t, q, u, u_dot) == [i \in 1..nla_N |-> u_dot]

\* the prescribed value of the bilateral constraint: 0 at the initial time,
\* cfg.drift afterwards
Prescribed(t) == IF t > t0 THEN cfg.drift ELSE 0

\* model.g(t, q), model.g_dot(t, q, u), model.g_ddot(t, q, u, u_dot): the mass
\* is held at the prescribed position when the Model has the position-level
\* constraint
g_fn(t, q) == [i \in 1..nla_g |-> q - Prescribed(t)]
g_dot_fn(t, q, u) == [i \in 1..nla_g |-> u]
g_ddot_fn(t, q, u, u_dot) == [i \in 1..nla_g |-> u_dot]

\* model.gamma(t, q, u), model.gamma_dot(t, q, u, u_dot): the mass is held at
\* the prescribed velocity when the Model has the velocity-level constraint
gamma_fn(t, q, u) == [i \in 1..nla_gamma |-> u - Prescribed(t)]
gamma_dot_fn(t, q, u, u_dot) == [i \in 1..nla_gamma |-> u_dot]

\* model.prox_r_N
prox_r_N == [i \in 1..nla_N |-> 1]

\* W_N @ la for the single coordinate
W_N_dot(la) == SumSeq(la)

\* W_g @ la, W_gamma @ la and g_q.T @ mu for the single coordinate
W_g_dot(la) == SumSeq(la)
W_gamma_dot(la) == SumSeq(la)

\* the angle from which psi_C changes to the complement (pi in the code)
HalfTurn == 2

\* TimoshenkoAxisAngleSE3.psi_C for one rotation coordinate: psi itself
\* below half a turn, else (1 - 2 pi / angle) psi, a full turn towards zero
psi_C(psi) ==
    IF Abs(psi) < HalfTurn THEN psi
    ELSE IF psi > 0 THEN psi - 2 * HalfTurn ELSE psi + 2 * HalfTurn

\* model.step_callback(t, q, u): the identity of a Model without callback,
\* or the re-wrapping of TimoshenkoAxisAngleSE3.step_callback
step_callback(t, q, u) == <<IF cfg.wrap THEN psi_C(q) ELSE q, u>>

(***************************************************************************)
(* update(y_dotk1, store): the tuple it returns and what it leaves in self *)
(***************************************************************************)
\* vk1 of update()
Update_vk1(y_dotk1) ==
    [i \in 1..ny |-> AlphaBlend(cfg.cls, y_dotk[i], y_dotk1[i], vk[i])]

\* yk1 of update()
Update_yk1(vk1) == [i \in 1..ny |-> GammaStep(cfg.cls, yk[i], vk[i], vk1[i])]

\* if store: self.vk, self.yk, self.y_dotk (and self.uk in the contact integrator)
Update_store(y_dotk1, vk1, yk1, store) ==
    IF store
    THEN [vk |-> vk1, yk |-> yk1, y_dotk |-> y_dotk1,
          uk |-> IF cfg.cls = "NC" THEN vk1[nq + 1] ELSE uk]
    ELSE [vk |-> vk, yk |-> yk, y_dotk |-> y_dotk, uk |-> uk]

\* return qk1, uk1, q_dotk1, u_dotk1
Update_return(y_dotk1, yk1) ==
    [qk1 |-> yk1[1], uk1 |-> yk1[nq + 1],
     q_dotk1 |-> y_dotk1[1], u_dotk1 |-> y_dotk1[nq + 1]]

Update_body(y_dotk1, vk1, yk1, store) ==
    [ret |-> Update_return(y_dotk1, yk1),
     self |-> Update_store(y_dotk1, vk1, yk1, store)]

Update_from(y_dotk1, vk1, store) ==
    Update_body(y_dotk1, vk1, Update_yk1(vk1), store)

\* update(): ret is the returned tuple, self the attributes after the call
Update(y_dotk1, store) == Update_from(y_dotk1, Update_vk1(y_dotk1), store)

\* GenAlphaFirstOrderPosition.update(yk1, store)
Update_Position_from(yk1, vk1, store) ==
    LET y_dotk1 == [i \in 1..ny |->
                       AlphaBlendInverse("FOPos", vk[i], vk1[i], y_dotk[i])]
    IN [ret |-> [qk1 |-> yk1[1], uk1 |-> yk1[nq + 1],
                 q_dotk1 |-> y_dotk1[1], u_dotk1 |-> y_dotk1[nq + 1]],
        self |-> IF store
                 THEN [vk |-> vk1, yk |-> yk1, y_dotk |-> y_dotk1, uk |-> uk]
                 ELSE [vk |-> vk, yk |-> yk, y_dotk |-> y_dotk, uk |-> uk]]

Update_Position(yk1, store) ==
    Update_Position_from(
        yk1, [i \in 1..ny |-> GammaStepInverse("FOPos", yk[i], yk1[i], vk[i])], store)

\* GenAlphaDAEAcc.update(ak1, store): a_bark1, uk1, a_beta, qk1; only a_bark is
\* stored.  dt2 * q_ddot(a_beta) is formed from the two parts of a_beta.
Update_Acc_from(ak1, a_bark1, store) ==
    [ret |-> [qk1 |-> BetaStep("Acc",
                               yk[1] + dt * q_dot_fn(tk, yk[1], yk[nq + 1]),
                               q_ddot_fn(tk, yk[1], yk[nq + 1], vk[nq + 1]),
                               q_ddot_fn(tk, yk[1], yk[nq + 1], a_bark1)),
              uk1 |-> GammaStep("Acc", yk[nq + 1], vk[nq + 1], a_bark1),
              q_dotk1 |-> 0, u_dotk1 |-> 0],
     self |-> [vk |-> IF store THEN <<vk[1], a_bark1>> ELSE vk,
               yk |-> yk, y_dotk |-> y_dotk, uk |-> uk]]

Update_Acc(ak1, store) ==
    Update_Acc_from(ak1, AlphaBlend("Acc", xk[1], ak1, vk[nq + 1]), store)

\* update() of the class, called with the leading entries of x
UpdateOf(x, store) ==
    IF cfg.cls = "FOPos" THEN Update_Position(Slice(x, 0, ny), store)
    ELSE IF cfg.cls = "Acc" THEN Update_Acc(x[1], store)
    ELSE Update(Slice(x, 0, ny), store)

(***************************************************************************)
(* pack / unpack of the contact integrator                                 *)
(***************************************************************************)
pack_NC(q_dot, u_dot, kappa_g, La_g, la_g, la_gamma, kappa_N, La_N, la_N) ==
    LET n == Len(la_N)
        o == nq + nu + 3 * nla_g + nla_gamma
        x0 == Zeros(nx("NC", n))
        x1 == SetSlice(x0, 0, nq, q_dot)
        x2 == SetSlice(x1, nq, nq + nu, u_dot)
        x3 == SetSlice(x2, nq + nu, nq + nu + nla_g, kappa_g)
        x4 == SetSlice(x3, nq + nu + nla_g, nq + nu + 2 * nla_g, La_g)
        x5 == SetSlice(x4, nq + nu + 2 * nla_g, nq + nu + 3 * nla_g, la_g)
        x6 == SetSlice(x5, nq + nu + 3 * nla_g, o, la_gamma)
        x7 == SetSlice(x6, o, o + n, kappa_N)
        x8 == SetSlice(x7, o + n, o + 2 * n, La_N)
    IN SetSlice(x8, o + 2 * n, o + 3 * n, la_N)

\* unpack with La_N read from the slice of kappa_N
unpack_NC_overlap(x) ==
    LET n == nla_N
        o == nq + nu + 3 * nla_g + nla_gamma
    IN [q_dot |-> Slice(x, 0, nq),
        u_dot |-> Slice(x, nq, nq + nu),
        kappa_g |-> Slice(x, nq + nu, nq + nu + nla_g),
        La_g |-> Slice(x, nq + nu + nla_g, nq + nu + 2 * nla_g),
        la_g |-> Slice(x, nq + nu + 2 * nla_g, nq + nu + 3 * nla_g),
        la_gamma |-> Slice(x, nq + nu + 3 * nla_g, o),
        kappa_N |-> Slice(x, o, o + n),
        La_N |-> Slice(x, o, o + n),
        la_N |-> Slice(x, o + 2 * n, o + 3 * n)]

unpack_NC(x) ==
    LET n == nla_N
        o == nq + nu + 3 * nla_g + nla_gamma
    IN [q_dot |-> Slice(x, 0, nq),
        u_dot |-> Slice(x, nq, nq + nu),
        kappa_g |-> Slice(x, nq + nu, nq + nu + nla_g),
        La_g |-> Slice(x, nq + nu + nla_g, nq + nu + 2 * nla_g),
        la_g |-> Slice(x, nq + nu + 2 * nla_g, nq + nu + 3 * nla_g),
        la_gamma |-> Slice(x, nq + nu + 3 * nla_g, o),
        kappa_N |-> Slice(x, o, o + n),
        La_N |-> Slice(x, o + n, o + 2 * n),
        la_N |-> Slice(x, o + 2 * n, o + 3 * n)]

(***************************************************************************)
(* R() of the contact integrator                                           *)
(***************************************************************************)
\* the store argument R passes to update()
R_store_on == TRUE
R_store == FALSE

\* la_Nbark1
R_la_Nbark1(la_Nk1) ==
    [i \in 1..nla_N |-> AlphaBlend("NC", la_Nk[i], la_Nk1[i], la_Nbark[i])]

\* P_Nk1
R_P_Nk1(La_Nk1, la_Nbark1) ==
    [i \in 1..nla_N |-> GammaStep("NC", La_Nk1[i], la_Nbark[i], la_Nbark1[i])]

\* kappa_hatNk1
R_kappa_hatNk1(kappa_Nk1, la_Nbark1) ==
    [i \in 1..nla_N |-> BetaStep("NC", kappa_Nk1[i], la_Nbark[i], la_Nbark1[i])]

\* the repeatedly used quantities of R, for update()'s tuple d and unpack()'s un
R_quantities_from(t, d, un, la_Nbark1) ==
    [kin |-> d.q_dotk1 - q_dot_fn(t, d.qk1, d.uk1)
                 - W_g_dot(un.kappa_g) - W_N_dot(un.kappa_N),
     eom |-> Mass * d.u_dotk1 - h_fn(t, d.qk1, d.uk1)
                 - W_g_dot(un.la_g) - W_gamma_dot(un.la_gamma) - W_N_dot(un.la_N),
     g |-> g_fn(t, d.qk1),
     g_dot |-> g_dot_fn(t, d.qk1, d.uk1),
     g_ddot |-> g_ddot_fn(t, d.qk1, d.uk1, d.u_dotk1),
     gamma |-> gamma_fn(t, d.qk1, d.uk1),
     la_Nbark1 |-> la_Nbark1,
     P_Nk1 |-> R_P_Nk1(un.La_N, la_Nbark1),
     kappa_hatNk1 |-> R_kappa_hatNk1(un.kappa_N, la_Nbark1),
     g_Nk1 |-> g_N_fn(t, d.qk1),
     xi_Nk1 |-> xi_N_fn(t, d.qk1, uk, d.uk1),
     g_N_ddotk1 |-> g_N_ddot_fn(t, d.qk1, d.uk1, d.u_dotk1),
     la_Nk1 |-> un.la_N]

R_quantities(t, d, un) == R_quantities_from(t, d, un, R_la_Nbark1(un.la_N))

\* eqn. (130): self.Ai1
IndexSetA(r, gN, khat) == [i \in 1..Len(gN) |-> r[i] * gN[i] - khat[i] <= 0]

\* eqn. (133): self.Bi1
IndexSetB_noA(A, r, xi, P) == [i \in 1..Len(xi) |-> r[i] * xi[i] - P[i] <= 0]
IndexSetB(A, r, xi, P) == [i \in 1..Len(xi) |-> A[i] /\ (r[i] * xi[i] - P[i] <= 0)]

\* eqn. (136): self.Ci1
IndexSetC(B, r, gdd, la) == [i \in 1..Len(gdd) |-> B[i] /\ (r[i] * gdd[i] - la[i] <= 0)]

\* if update_index_set: the three assignments to self.Ai1, self.Bi1, self.Ci1
R_index_sets(Q) ==
    LET A == IndexSetA(prox_r_N, Q.g_Nk1, Q.kappa_hatNk1)
        B == IndexSetB(A, prox_r_N, Q.xi_Nk1, Q.P_Nk1)
    IN [set |-> TRUE, A |-> A, B |-> B,
        C |-> IndexSetC(B, prox_r_N, Q.g_N_ddotk1, Q.la_Nk1)]

\* the rows of R for quantities Q and index sets m, written in program order
R_rows(Q, m) ==
    LET I_N == m.A
        A_N == MaskAnd(I_N, m.B)
        B_N == MaskAnd(A_N, m.C)
    IN ScatterAll(ZeroRows(nx("NC", nla_N)), <<
        SliceWrite(0, nq, <<Q.kin>>, "kin"),
        SliceWrite(nq, nq + nu, <<Q.eom>>, "eom"),
        SliceWrite(nq + nu, nq + nu + nla_g, Q.g, "g"),
        SliceWrite(nq + nu + nla_g, nq + nu + 2 * nla_g, Q.g_dot, "g_dot"),
        SliceWrite(nq + nu + 2 * nla_g, nq + nu + 3 * nla_g, Q.g_ddot, "g_ddot"),
        SliceWrite(nq + nu + 3 * nla_g, nR_smooth, Q.gamma, "gamma"),
        MaskedWrite(nR_smooth, Q.g_Nk1, I_N, "g_N"),
        MaskedWrite(nR_smooth, Q.kappa_hatNk1, Complement(I_N), "kappa_hat_N"),
        MaskedWrite(nR_smooth + nla_N, Q.xi_Nk1, A_N, "xi_N"),
        MaskedWrite(nR_smooth + nla_N, Q.P_Nk1, Complement(A_N), "P_N"),
        MaskedWrite(nR_smooth + 2 * nla_N, Q.g_N_ddotk1, B_N, "g_N_ddot"),
        MaskedWrite(nR_smooth + 2 * nla_N, Q.la_Nk1, Complement(B_N), "la_N")>>)

R_NC_result(U, Q, m) == [R |-> R_rows(Q, m), idx |-> m, self |-> U.self, Q |-> Q]

R_NC_masked(U, Q, update_index_set) ==
    R_NC_result(U, Q, IF update_index_set THEN R_index_sets(Q) ELSE idx)

R_NC_updated(t, x, update_index_set, U) ==
    R_NC_masked(U, R_quantities(t, U.ret, unpack_NC(x)), update_index_set)

\* R(tk1, xk1, update_index_set): R is the returned residual, idx and self are
\* the index sets and the history attributes the call leaves in self
R_NC(t, x, update_index_set) ==
    R_NC_updated(t, x, update_index_set, Update(Slice(x, 0, ny), R_store))

(***************************************************************************)
(* __R_gen_analytic of GenAlphaFirstOrderVelocityGGL (first yield)         *)
(***************************************************************************)
\* unpack of GenAlphaFirstOrderVelocityGGL and the slices __R_gen_analytic takes
unpack_GGL(x) ==
    [q_dot |-> Slice(x, 0, nq),
     u_dot |-> Slice(x, nq, nq + nu),
     la_g |-> Slice(x, nq + nu, nq + nu + nla_g),
     la_gamma |-> Slice(x, nq + nu + nla_g, nq + nu + nla_g + nla_gamma),
     mu_g |-> Slice(x, nq + nu + nla_g + nla_gamma, nq + nu + 2 * nla_g + nla_gamma)]

\* the rows of R for update()'s tuple d and the multipliers un
R_GGL_rows(t, d, un) ==
    ScatterAll(ZeroRows(nx("GGL", 0)), <<
        SliceWrite(0, nq, <<d.q_dotk1 - q_dot_fn(t, d.qk1, d.uk1) - W_g_dot(un.mu_g)>>,
                   "kin"),
        SliceWrite(nq, nq + nu,
                   <<Mass * d.u_dotk1 - h_fn(t, d.qk1, d.uk1)
                         - W_g_dot(un.la_g) - W_gamma_dot(un.la_gamma)>>, "eom"),
        SliceWrite(nq + nu, nq + nu + nla_g, g_dot_fn(t, d.qk1, d.uk1), "g_dot"),
        SliceWrite(nq + nu + nla_g, nq + nu + nla_g + nla_gamma,
                   gamma_fn(t, d.qk1, d.uk1), "gamma"),
        SliceWrite(nq + nu + nla_g + nla_gamma, nq + nu + 2 * nla_g + nla_gamma,
                   g_fn(t, d.qk1), "g")>>)

R_GGL_updated(t, x, U) ==
    [R |-> R_GGL_rows(t, U.ret, unpack_GGL(x)),
     idx |-> idx, self |-> U.self, Q |-> <<>>]

R_GGL(t, x) == R_GGL_updated(t, x, Update(Slice(x, 0, ny), R_store))

(***************************************************************************)
(* __R_gen_analytic of GenAlphaFirstOrderVelocity, GenAlphaFirstOrderPosition *)
(* and GenAlphaDAEAcc (first yield)                                        *)
(***************************************************************************)
\* unpack of GenAlphaFirstOrderVelocity and GenAlphaFirstOrderPosition: the
\* multipliers after the ny leading entries
unpack_FO(x) ==
    [la_g |-> Slice(x, nq + nu, nq + nu + nla_g),
     la_gamma |-> Slice(x, nq + nu + nla_g, nq + nu + nla_g + nla_gamma)]

\* unpack of GenAlphaDAEAcc
unpack_Acc(x) ==
    [a |-> Slice(x, 0, nu),
     la_g |-> Slice(x, nu, nu + nla_g),
     la_gamma |-> Slice(x, nu + nla_g, nu + nla_g + nla_gamma)]

\* the rows of R: kinematic equation, equations of motion, and the bilateral
\* constraints on the level DAE_index selects
R_FO_rows(t, d, un, DAE_index) ==
    ScatterAll(ZeroRows(nx("Vel", 0)), <<
        SliceWrite(0, nq, <<d.q_dotk1 - q_dot_fn(t, d.qk1, d.uk1)>>, "kin"),
        SliceWrite(nq, nq + nu,
                   <<Mass * d.u_dotk1 - h_fn(t, d.qk1, d.uk1)
                         - W_g_dot(un.la_g) - W_gamma_dot(un.la_gamma)>>, "eom"),
        IF DAE_index = 3
        THEN SliceWrite(nq + nu, nq + nu + nla_g, g_fn(t, d.qk1), "g")
        ELSE IF DAE_index = 2
        THEN SliceWrite(nq + nu, nq + nu + nla_g, g_dot_fn(t, d.qk1, d.uk1), "g_dot")
        ELSE SliceWrite(nq + nu, nq + nu + nla_g,
                        g_ddot_fn(t, d.qk1, d.uk1, d.u_dotk1), "g_ddot"),
        IF DAE_index \in {2, 3}
        THEN SliceWrite(nq + nu + nla_g, nq + nu + nla_g + nla_gamma,
                        gamma_fn(t, d.qk1, d.uk1), "gamma")
        ELSE SliceWrite(nq + nu + nla_g, nq + nu + nla_g + nla_gamma,
                        gamma_dot_fn(t, d.qk1, d.uk1, d.u_dotk1), "gamma_dot")>>)

R_FO_updated(t, x, U) ==
    [R |-> R_FO_rows(t, U.ret, unpack_FO(x), cfg.DAE_index),
     idx |-> idx, self |-> U.self, Q |-> <<>>]

R_FO(t, x) == R_FO_updated(t, x, UpdateOf(x, R_store))

\* the rows of R of GenAlphaDAEAcc: equations of motion, g, gamma
R_Acc_rows(t, d, un) ==
    ScatterAll(ZeroRows(nx("Acc", 0)), <<
        SliceWrite(0, nu,
                   <<Mass * un.a[1] - (h_fn(t, d.qk1, d.uk1)
                         + W_g_dot(un.la_g) + W_gamma_dot(un.la_gamma))>>, "eom"),
        SliceWrite(nu, nu + nla_g, g_fn(t, d.qk1), "g"),
        SliceWrite(nu + nla_g, nu + nla_g + nla_gamma,
                   gamma_fn(t, d.qk1, d.uk1), "gamma")>>)

R_Acc_updated(t, x, U) ==
    [R |-> R_Acc_rows(t, U.ret, unpack_Acc(x)),
     idx |-> idx, self |-> U.self, Q |-> <<>>]

R_Acc(t, x) == R_Acc_updated(t, x, UpdateOf(x, R_store))

\* the residual evaluation step() makes at an iterate, per class
Residual(t, x, update_index_set) ==
    IF cfg.cls = "NC" THEN R_NC(t, x, update_index_set)
    ELSE IF cfg.cls = "GGL" THEN R_GGL(t, x)
    ELSE IF cfg.cls = "Acc" THEN R_Acc(t, x)
    ELSE R_FO(t, x)

(***************************************************************************)
(* The Newton update: R_x by finite differences, dx = spsolve(R_x, R)      *)
(***************************************************************************)
\* x with entry c raised by one
Shifted(x, c) == [i \in 1..Len(x) |-> IF i = c THEN x[i] + 1 ELSE x[i]]

\* approx_fprime(xk1, lambda x: self.__R(tk1, x)): entry [r][c] is the change
\* of row r of the residual per unit of x[c], exact for the affine residual
R_x_num(t, x) ==
    LET R0 == Values(Residual(t, x, FALSE).R)
    IN [r \in 1..Len(x) |->
           [c \in 1..Len(x) |-> Values(Residual(t, Shifted(x, c), FALSE).R)[r] - R0[r]]]

\* a matrix without row 1 and column c
Minor(A, c) ==
    [r \in 1..(Len(A) - 1) |->
        [d \in 1..(Len(A) - 1) |-> A[r + 1][IF d < c THEN d ELSE d + 1]]]

RECURSIVE Det(_)
\* the determinant, expanded along the first row
Det(A) ==
    IF Len(A) = 0 THEN 1
    ELSE IF Len(A) = 1 THEN A[1][1]
    ELSE LET Term[c \in 0..Len(A)] ==
                 IF c = 0 THEN 0
                 ELSE Term[c - 1]
                          + (IF c % 2 = 1 THEN 1 ELSE -1) * A[1][c] * Det(Minor(A, c))
         IN Term[Len(A)]

\* A with column c replaced by b
WithColumn(A, c, b) ==
    [r \in 1..Len(A) |-> [d \in 1..Len(A) |-> IF d = c THEN b[r] ELSE A[r][d]]]

\* spsolve(A, b) for a regular matrix A
spsolve(A, b) ==
    [c \in 1..Len(A) |->
        (IF Det(A) < 0 THEN -Det(WithColumn(A, c, b)) ELSE Det(WithColumn(A, c, b)))
            \div Abs(Det(A))]

\* xk1 after xk1 -= dx
NewtonIterate(t, x, Rv) ==
    LET dx == spsolve(R_x_num(t, x), Rv)
    IN [i \in 1..Len(x) |-> x[i] - dx[i]]

(***************************************************************************)
(* Constructor arguments                                                   *)
(***************************************************************************)
Dom == (-ValMax)..ValMax

\* the arguments of one class: only the contact integrator has contacts
\* the classes whose __init__ has a DAE_index argument
AcceptsDAEIndex(cls) == cls \in {"NC", "Vel", "FOPos"}

\* DAE_index=2 of the contact integrator, DAE_index=3 of the two first-order
\* integrators; 0 where there is no such argument
DefaultDAEIndex(cls) ==
    IF cls = "NC" THEN 2 ELSE IF AcceptsDAEIndex(cls) THEN 3 ELSE 0

\* assert DAE_index >= 1 and DAE_index <= 2 (contact integrator), <= 3 (the
\* two first-order integrators)
AdmissibleDAEIndex(cls, DAE_index) ==
    AcceptsDAEIndex(cls) =>
        (DAE_index >= 1 /\ DAE_index <= (IF cls = "NC" THEN 2 ELSE 3))

\* model.la_N0: the same initial force, 0 or 1, in each of the n contacts
InitialContactForces(n) == {[i \in 1..n |-> v] : v \in 0..1}

\* whether the bodies of the Model define q_ddot: only GenAlphaDAEAcc calls
\* model.q_ddot, so only there the kinds of Model are told apart.  The body
\* whose step_callback re-wraps its coordinate (cfg.wrap) defines a q_ddot
\* that raises, see Q_ddotOutcome
ModelsOf(cls) == IF cls = "Acc" THEN BOOLEAN ELSE {TRUE}

ConfigsOf(cls, n) ==
    [cls : {cls}, numerical_jacobian : BOOLEAN, tol : 0..MaxTol,
     max_iter : 0..MaxIter, t1 : 1..MaxT1, grav : 0..1,
     nla_N : {n}, q0 : -1..1, u0 : -1..1, la_N0 : InitialContactForces(n),
     bil : {"none"}, la_b0 : {0}, drift : {0},
     DAE_index : {DefaultDAEIndex(cls)}, wrap : {FALSE},
     has_q_ddot : ModelsOf(cls)]

\* the arguments of one class on a Model with one bilateral constraint, whose
\* initial multiplier (model.la_g0 or model.la_gamma0) is la_b0
ConfigsBilOf(cls) ==
    [cls : {cls}, numerical_jacobian : BOOLEAN, tol : 1..MaxTol,
     max_iter : 0..1, t1 : 1..3, grav : 0..1,
     nla_N : {0}, q0 : -1..1, u0 : -1..1, la_N0 : {<<>>},
     bil : {"g", "gamma"}, la_b0 : 0..1, drift : 0..1,
     DAE_index : IF AcceptsDAEIndex(cls) THEN 1..3 ELSE {DefaultDAEIndex(cls)},
     wrap : {FALSE}, has_q_ddot : ModelsOf(cls)]

ConfigsBil == UNION {ConfigsBilOf(cls) : cls \in Classes}

Configs ==
    UNION {ConfigsOf("NC", n) : n \in 0..MaxContacts}
        \cup UNION {ConfigsOf(cls, 0) : cls \in Classes \ {"NC"}}

\* the default of numerical_jacobian in each class's __init__
DefaultNumericalJacobian(cls) == cls \notin {"Pos", "Acc"}

\* a grid that leaves out the last, partial interval
NSteps_floor == (cfg.t1 - t0) \div dt

\* len(np.arange(self.t0, self.t1, self.dt))
NSteps == (cfg.t1 - t0 + dt - 1) \div dt

\* model.la_g0, model.la_gamma0
la_g0 == [i \in 1..nla_g |-> cfg.la_b0]
la_gamma0 == [i \in 1..nla_gamma |-> cfg.la_b0]

\* the classes whose __init__ solves for u_dot0 and the bilateral multipliers
SolvesInitialMultipliers(cls) == cls \in {"GGL", "Vel", "FOPos"}

\* GenAlphaFirstOrderVelocityGGL.__init__: spsolve(A, b) for u_dot and the
\* multipliers of the bilateral constraint (zeta_g0 = zeta_gamma0 = 0 here)
Init_GGL ==
    IF cfg.bil = "none"
    THEN [u_dot |-> h_fn(t0, cfg.q0, cfg.u0) \div Mass, la |-> 0]
    ELSE [u_dot |-> 0, la |-> Mass * 0 - h_fn(t0, cfg.q0, cfg.u0)]

\* u_dotk = spsolve(M0, h0 + W_g0 @ la_gk + W_gamma0 @ la_gammak + W_N0 @ la_Nk)
Init_u_dotk ==
    IF SolvesInitialMultipliers(cfg.cls) THEN Init_GGL.u_dot
    ELSE (h_fn(t0, cfg.q0, cfg.u0) + W_g_dot(la_g0) + W_gamma_dot(la_gamma0)
              + W_N_dot(cfg.la_N0)) \div Mass

\* self.la_gk, self.la_gammak at the end of __init__
Init_la_gk ==
    [i \in 1..nla_g |->
        IF SolvesInitialMultipliers(cfg.cls) THEN Init_GGL.la ELSE cfg.la_b0]
Init_la_gammak ==
    [i \in 1..nla_gamma |->
        IF SolvesInitialMultipliers(cfg.cls) THEN Init_GGL.la ELSE cfg.la_b0]

\* np.allclose(v, np.zeros(n)) on exact numbers
AllClose0(v) == \A i \in 1..Len(v) : v[i] = 0

\* the five asserts on g0, g_dot0, g_ddot0, gamma0, gamma_dot0 pass
BilateralAssertsPass ==
    /\ AllClose0(g_fn(t0, cfg.q0))
    /\ AllClose0(g_dot_fn(t0, cfg.q0, cfg.u0))
    /\ AllClose0(g_ddot_fn(t0, cfg.q0, cfg.u0, Init_u_dotk))
    /\ AllClose0(gamma_fn(t0, cfg.q0, cfg.u0))
    /\ AllClose0(gamma_dot_fn(t0, cfg.q0, cfg.u0, Init_u_dotk))

\* the classes whose __init__ contains the asserts
AssertsInitialConditions(cls) == cls \in {"NC", "GGL", "Vel", "FOPos"}

\* how __init__ ends: the asserts on the initial state, then the choice of __R_gen
ConstructOutcome ==
    IF ~AdmissibleDAEIndex(cfg.cls, cfg.DAE_index)
    THEN "AssertionError"
    ELSE IF AssertsInitialConditions(cfg.cls) /\ ~BilateralAssertsPass
    THEN "AssertionError"
    ELSE IF cfg.cls = "NC" /\ \E i \in 1..nla_N : g_N_fn(t0, cfg.q0)[i] < 0
    THEN "AssertionError"
    ELSE IF cfg.cls = "NC" /\ ~cfg.numerical_jacobian
    THEN "AttributeError"
    ELSE "ok"

\* while j < self.max_iter
LoopContinues_leq(jj, max_iter) == jj <= max_iter
LoopContinues(jj, max_iter) == jj < max_iter

\* converged = error < self.tol
ConvergedLeq(e, tol) == e <= tol
Converged(e, tol) == e < tol

\* what building the Jacobian inside the Newton loop does, per class
JacobianOutcome(cls, numerical_jacobian) ==
    IF cls = "NC" THEN "AttributeError"
    ELSE IF cls \in {"GGL", "FOPos"}
    THEN IF numerical_jacobian THEN "ok" ELSE "RuntimeError_placeholder"
    ELSE IF cls = "Vel"
    THEN IF numerical_jacobian THEN "ok" ELSE "AttributeError"
    ELSE IF cls = "Acc" THEN "ok"
    ELSE IF numerical_jacobian THEN "AttributeError" ELSE "NotImplementedError"

\* what model.q_ddot does: a Model whose bodies do not define it cannot
\* answer, TimoshenkoAxisAngleSE3.q_ddot begins with raise RuntimeError("Not
\* tested!"), DirectorAxisAngle.q_ddot returns u_dot
Q_ddotOutcome ==
    IF ~cfg.has_q_ddot THEN "AttributeError"
    ELSE IF cfg.wrap THEN "RuntimeError_not_tested"
    ELSE "ok"

\* what the first residual evaluation of a step does, per class; in
\* GenAlphaDAEAcc update() calls model.q_ddot
FirstResidualOutcome(cls) ==
    IF cls = "Pos" THEN "AttributeError"
    ELSE IF cls = "Acc" THEN Q_ddotOutcome
    ELSE "ok"

\* the store argument solve() passes to update() for an accepted step
Solve_store_off == FALSE
Solve_store == TRUE

\* if not converged: raise RuntimeError(...)
NeverRaise(conv) == FALSE
RaisesNotConverged(conv) == ~conv

\* no method is called on its own
NoProbe == [op |-> "none"]

NoReport == [n_iter |-> -1, error |-> -1]
NoIdx == [set |-> FALSE, A |-> <<>>, B |-> <<>>, C |-> <<>>]
NoLoc == [qk1 |-> 0, uk1 |-> 0, q_dotk1 |-> 0, u_dotk1 |-> 0]
NoOut == [t |-> <<>>, q |-> <<>>, u |-> <<>>, q_dot |-> <<>>, u_dot |-> <<>>,
          a |-> <<>>,
          kappa_g |-> <<>>, La_g |-> <<>>, la_g |-> <<>>, la_gamma |-> <<>>,
          mu_g |-> <<>>, kappa_N |-> <<>>, La_N |-> <<>>, la_N |-> <<>>]

\* the output lists solve() of each class keeps
OutFields(cls) ==
    IF cls = "NC"
    THEN {"t", "q", "u", "q_dot", "u_dot", "kappa_g", "La_g", "la_g",
          "la_gamma", "kappa_N", "La_N", "la_N"}
    ELSE IF cls = "GGL"
    THEN {"t", "q", "u", "q_dot", "u_dot", "la_g", "la_gamma", "mu_g"}
    ELSE IF cls = "Vel"
    THEN {"t", "q", "u", "q_dot", "u_dot", "la_g", "la_gamma"}
    ELSE IF cls = "FOPos"
    THEN {"t", "q", "u", "u_dot", "la_g", "la_gamma"}
    ELSE IF cls = "Acc"
    THEN {"t", "q", "u", "a", "la_g", "la_gamma"}
    ELSE {"t", "q", "u", "la_g", "la_gamma"}

\* the multipliers solve() unpacks from x, by output field
Multipliers(cls, x) ==
    IF cls = "NC" THEN unpack_NC(x)
    ELSE IF cls = "GGL" THEN unpack_GGL(x)
    ELSE IF cls \in {"Vel", "FOPos"} THEN unpack_FO(x)
    ELSE IF cls = "Acc" THEN unpack_Acc(x)
    ELSE [la_g |-> Slice(x, nq, nq + nla_g),
          la_gamma |-> Slice(x, nq + nla_g, nq + nla_g + nla_gamma)]

\* the record of one entry per output list: time, update()'s tuple, multipliers
Entry(cls, t, d, un) ==
    [f \in OutFields(cls) |->
        IF f = "t" THEN t
        ELSE IF f = "q" THEN d.qk1
        ELSE IF f = "u" THEN d.uk1
        ELSE IF f = "q_dot" THEN d.q_dotk1
        ELSE IF f = "u_dot" THEN d.u_dotk1
        ELSE un[f]]

\* t = [self.tk]; q = [self.qk]; ...
FirstLists(cls, e) ==
    [f \in DOMAIN NoOut |-> IF f \in OutFields(cls) THEN <<e[f]>> ELSE <<>>]

\* t.append(tk1); q.append(qk1); ... with la_N.append(la_Nk1) left out
AppendAll_la_N_skipped(cls, o, e) ==
    [f \in DOMAIN NoOut |->
        IF f \in OutFields(cls) \ {"la_N"} THEN Append(o[f], e[f]) ELSE o[f]]

\* t.append(tk1); q.append(qk1); ...
AppendAll(cls, o, e) ==
    [f \in DOMAIN NoOut |->
        IF f \in OutFields(cls) THEN Append(o[f], e[f]) ELSE o[f]]

(***************************************************************************)
(* State machine                                                           *)
(***************************************************************************)
Init ==
    /\ cfg \in Configs
    /\ pc = "new"
    /\ exc = "none"
    /\ report = NoReport
    /\ tk = 0 /\ xk = <<>>
    /\ yk = <<0, 0>> /\ y_dotk = <<0, 0>> /\ vk = <<0, 0>> /\ uk = 0
    /\ la_Nk = <<>> /\ la_Nbark = <<>>
    /\ idx = NoIdx
    /\ k = 0 /\ tk1 = 0 /\ xk1 = <<>>
    /\ R = <<>> /\ error = 0 /\ converged = FALSE /\ j = 0
    /\ loc = NoLoc /\ out = NoOut
    /\ ev = <<>> /\ assigned = {} /\ maskLog = <<>>
    /\ probe = NoProbe

stepLocals == <<k, tk1, xk1, R, error, converged, j, loc, out, ev, assigned, maskLog>>
history == <<yk, y_dotk, vk, uk>>

\* __init__ up to its last line
Construct ==
    /\ pc = "new"
    /\ ConstructOutcome = "ok"
    /\ pc' = "constructed"
    /\ tk' = t0
    /\ yk' = <<cfg.q0, cfg.u0>>
    /\ uk' = cfg.u0
    /\ la_Nk' = cfg.la_N0
    /\ la_Nbark' = cfg.la_N0
    /\ LET qd == q_dot_fn(t0, cfg.q0, cfg.u0)
       IN /\ y_dotk' = IF cfg.cls \in {"Pos", "Acc"} THEN <<0, 0>>
                       ELSE <<qd, Init_u_dotk>>
          /\ vk' = IF cfg.cls = "Pos" THEN <<0, 0>>
                   ELSE IF cfg.cls = "Acc" THEN <<0, Init_u_dotk>>
                   ELSE <<qd, Init_u_dotk>>
          /\ xk' = IF cfg.cls = "NC"
                   THEN pack_NC(<<qd>>, <<Init_u_dotk>>, Zeros(nla_g), Zeros(nla_g),
                                Init_la_gk, Init_la_gammak,
                                Zeros(nla_N), Zeros(nla_N), cfg.la_N0)
                   ELSE IF cfg.cls = "GGL"
                   THEN <<qd, Init_u_dotk>> \o Init_la_gk \o Init_la_gammak
                            \o Zeros(nla_g)
                   ELSE IF cfg.cls = "Vel"
                   THEN <<qd, Init_u_dotk>> \o Init_la_gk \o Init_la_gammak
                   ELSE IF cfg.cls = "FOPos"
                   THEN <<cfg.q0, cfg.u0>> \o Init_la_gk \o Init_la_gammak
                   ELSE IF cfg.cls = "Acc"
                   THEN <<Init_u_dotk>> \o Init_la_gk \o Init_la_gammak
                   ELSE <<cfg.q0>> \o Init_la_gk \o Init_la_gammak
    /\ UNCHANGED <<probe, cfg, exc, report, idx, stepLocals>>

\* __init__ ending in an exception
ConstructRaises ==
    /\ pc = "new"
    /\ ConstructOutcome # "ok"
    /\ pc' = "raised"
    /\ exc' = ConstructOutcome
    /\ UNCHANGED <<probe, cfg, report, tk, xk, history, la_Nk, la_Nbark, idx, stepLocals>>

\* self.kappa_gk, self.La_gk, self.la_gk, ... that solve() puts first
InitialMultipliers ==
    [kappa_g |-> Zeros(nla_g), La_g |-> Zeros(nla_g),
     la_g |-> Init_la_gk, la_gamma |-> Init_la_gammak, mu_g |-> Zeros(nla_g),
     a |-> Slice(xk, 0, nu),
     kappa_N |-> Zeros(nla_N), La_N |-> Zeros(nla_N), la_N |-> la_Nk]

\* self.t1 = t1 if t1 > t0 else ValueError(...): a number, or the exception
\* object, which is stored and not raised
IntegrationTime(t1) == IF t1 > t0 THEN "number" ELSE "ValueError_instance"

\* solve(): t = [self.tk]; q = [self.qk]; ..., the output lists before the loop
InitialLists ==
    FirstLists(cfg.cls,
               Entry(cfg.cls, tk,
                     [qk1 |-> yk[1], uk1 |-> yk[nq + 1],
                      q_dotk1 |-> y_dotk[1], u_dotk1 |-> y_dotk[nq + 1]],
                     InitialMultipliers))

\* solve(): the output lists, then np.arange(self.t0, self.t1, self.dt)
SolveBegin ==
    /\ pc = "constructed"
    /\ IntegrationTime(cfg.t1) = "number"
    /\ pc' = "idle"
    /\ out' = InitialLists
    /\ UNCHANGED <<probe, cfg, exc, report, tk, xk, history, la_Nk, la_Nbark, idx,
                   k, tk1, xk1, R, error, converged, j, loc, ev, assigned, maskLog>>

\* step(): R = ...; error = ...; converged = ...; what the evaluation rc leaves
Evaluated(jj, rc) ==
    LET e == MaxAbs(Values(rc.R))
    IN /\ R' = rc.R
       /\ error' = e
       /\ converged' = Converged(e, cfg.tol)
       /\ j' = jj
       /\ idx' = rc.idx
       /\ maskLog' = IF cfg.cls = "NC"
                     THEN Append(IF jj = 0 THEN <<>> ELSE maskLog, rc.idx)
                     ELSE <<>>
       /\ vk' = rc.self.vk /\ yk' = rc.self.yk
       /\ y_dotk' = rc.self.y_dotk /\ uk' = rc.self.uk
       /\ pc' = IF Converged(e, cfg.tol) \/ ~LoopContinues(jj, cfg.max_iter)
                THEN "stepped" ELSE "newton"

Evaluate(t, x, jj) == Evaluated(jj, Residual(t, x, TRUE))

\* solve(): tk1, the copy of xk, and step() up to its first convergence test
BeginStep ==
    /\ pc = "idle"
    /\ k < NSteps
    /\ FirstResidualOutcome(cfg.cls) = "ok"
    /\ tk1' = tk + dt
    /\ xk1' = xk
    /\ Evaluate(tk + dt, xk, 0)
    /\ ev' = <<>>
    /\ assigned' = {}
    /\ UNCHANGED <<probe, cfg, exc, report, tk, xk, la_Nk, la_Nbark, k, loc, out>>

\* solve(): tk1 = self.tk + self.dt; xk1 = self.pack(...); then step(), whose
\* first residual evaluation raises
BeginStepRaises ==
    /\ pc = "idle"
    /\ k < NSteps
    /\ FirstResidualOutcome(cfg.cls) # "ok"
    /\ pc' = "raised"
    /\ exc' = FirstResidualOutcome(cfg.cls)
    /\ tk1' = tk + dt
    /\ xk1' = xk
    /\ ev' = <<>>
    /\ UNCHANGED <<probe, cfg, report, tk, xk, history, la_Nk, la_Nbark, idx, k,
                   R, error, converged, j, loc, out, assigned, maskLog>>

\* step(): building the Jacobian raises
JacobianRaises ==
    /\ pc = "newton"
    /\ JacobianOutcome(cfg.cls, cfg.numerical_jacobian) # "ok"
    /\ pc' = "raised"
    /\ exc' = JacobianOutcome(cfg.cls, cfg.numerical_jacobian)
    /\ UNCHANGED <<probe, cfg, report, tk, xk, history, la_Nk, la_Nbark, idx, stepLocals>>

\* self.xk after the in-place xk1 -= dx, had solve() not copied self.xk
StoredAfterUpdate_aliased(stored, working) == working

\* self.xk after the in-place xk1 -= dx: xk1 is a copy, self.xk is not touched
StoredAfterUpdate(stored, working) == stored

\* step(): Jacobian, j += 1, xk1 -= dx, residual and convergence test
NewtonUpdate ==
    /\ pc = "newton"
    /\ LoopContinues(j, cfg.max_iter)
    /\ JacobianOutcome(cfg.cls, cfg.numerical_jacobian) = "ok"
    /\ xk1' = NewtonIterate(tk1, xk1, Values(R))
    /\ xk' = StoredAfterUpdate(xk, NewtonIterate(tk1, xk1, Values(R)))
    /\ Evaluate(tk1, NewtonIterate(tk1, xk1, Values(R)), j + 1)
    /\ UNCHANGED <<probe, cfg, exc, report, tk, la_Nk, la_Nbark, k, tk1, loc, out,
                   ev, assigned>>

\* solve(): not converged
RaiseNotConverged ==
    /\ pc = "stepped"
    /\ RaisesNotConverged(converged)
    /\ pc' = "raised"
    /\ exc' = "RuntimeError_not_converged"
    /\ report' = [n_iter |-> j, error |-> error]
    /\ UNCHANGED <<probe, cfg, tk, xk, history, la_Nk, la_Nbark, idx, stepLocals>>

\* what update(y_dotk1, store=True) leaves in self and in solve()'s locals
Committed(U) ==
    /\ vk' = U.self.vk /\ yk' = U.self.yk
    /\ y_dotk' = U.self.y_dotk /\ uk' = U.self.uk
    /\ loc' = U.ret

\* solve(): update(y_dotk1, store=True)
Commit ==
    /\ pc = "stepped"
    /\ ~RaisesNotConverged(converged)
    /\ pc' = "updated"
    /\ Committed(UpdateOf(xk1, Solve_store))
    /\ ev' = Append(ev, "update_store")
    /\ assigned' = IF ~Solve_store THEN {}
                   ELSE IF cfg.cls = "Acc" THEN {"a_bark"}
                   ELSE {"vk", "yk", "y_dotk"} \cup (IF cfg.cls = "NC" THEN {"uk"} ELSE {})
    /\ UNCHANGED <<probe, cfg, exc, report, tk, xk, la_Nk, la_Nbark, idx, k, tk1, xk1,
                   R, error, converged, j, out, maskLog>>

\* solve(): qk1, uk1 = self.model.step_callback(tk1, qk1, uk1)
Callback ==
    /\ pc = "updated"
    /\ pc' = "called_back"
    /\ LET cb == step_callback(tk1, loc.qk1, loc.uk1)
       IN /\ loc' = [loc EXCEPT !.qk1 = cb[1], !.uk1 = cb[2]]
          /\ xk1' = IF cfg.cls = "FOPos" THEN [xk1 EXCEPT ![1] = cb[1]] ELSE xk1
    /\ ev' = Append(ev, "step_callback")
    /\ UNCHANGED <<probe, cfg, exc, report, tk, xk, history, la_Nk, la_Nbark, idx, k,
                   tk1, R, error, converged, j, out, assigned, maskLog>>

\* solve(): the appends to the output lists
AppendSnapshot ==
    /\ pc = "called_back"
    /\ pc' = "appended"
    /\ out' = AppendAll(cfg.cls, out,
                         Entry(cfg.cls, tk1, loc, Multipliers(cfg.cls, xk1)))
    /\ ev' = Append(ev, "append")
    /\ UNCHANGED <<probe, cfg, exc, report, tk, xk, history, la_Nk, la_Nbark, idx, k,
                   tk1, xk1, R, error, converged, j, loc, assigned, maskLog>>

\* solve(): self.tk = tk1; self.xk = xk1.copy(); next loop index.  In
\* GenAlphaDAEAcc: self.tk = tk1; self.qk = qk1; self.uk = uk1; self.ak = ak1;
\* self.la_gk = la_gk1; self.la_gammak = la_gammak1
Advance ==
    /\ pc = "appended"
    /\ pc' = "idle"
    /\ tk' = tk1
    /\ xk' = xk1
    /\ yk' = IF cfg.cls = "Acc" THEN <<loc.qk1, loc.uk1>> ELSE yk
    /\ k' = k + 1
    /\ ev' = Append(ev, "advance")
    /\ assigned' = assigned \cup (IF cfg.cls = "Acc"
                                  THEN {"tk", "qk", "uk", "ak", "la_gk", "la_gammak"}
                                  ELSE {"tk", "xk"})
    /\ UNCHANGED <<probe, cfg, exc, report, y_dotk, vk, uk, la_Nk, la_Nbark, idx, tk1,
                   xk1, R, error, converged, j, loc, out, maskLog>>

\* solve(): the loop is exhausted, return Solution(...)
Finish ==
    /\ pc = "idle"
    /\ k = NSteps
    /\ pc' = "returned"
    /\ UNCHANGED <<probe, cfg, exc, report, tk, xk, history, la_Nk, la_Nbark, idx,
                   stepLocals>>

Next ==
    \/ Construct
    \/ ConstructRaises
    \/ SolveBegin
    \/ BeginStep
    \/ BeginStepRaises
    \/ JacobianRaises
    \/ NewtonUpdate
    \/ RaiseNotConverged
    \/ Commit
    \/ Callback
    \/ AppendSnapshot
    \/ Advance
    \/ Finish

Spec == Init /\ [][Next]_vars

\* the same integrators on the Models with one bilateral constraint
InitBil ==
    /\ cfg \in ConfigsBil
    /\ pc = "new"
    /\ exc = "none"
    /\ report = NoReport
    /\ tk = 0 /\ xk = <<>>
    /\ yk = <<0, 0>> /\ y_dotk = <<0, 0>> /\ vk = <<0, 0>> /\ uk = 0
    /\ la_Nk = <<>> /\ la_Nbark = <<>>
    /\ idx = NoIdx
    /\ k = 0 /\ tk1 = 0 /\ xk1 = <<>>
    /\ R = <<>> /\ error = 0 /\ converged = FALSE /\ j = 0
    /\ loc = NoLoc /\ out = NoOut
    /\ ev = <<>> /\ assigned = {} /\ maskLog = <<>>
    /\ probe = NoProbe

SpecBil == InitBil /\ [][Next]_vars

(***************************************************************************)
(* Properties                                                              *)
(***************************************************************************)
\* a residual of the contact integrator has just been evaluated at (tk1, xk1)
EvaluatedNC == cfg.cls = "NC" /\ pc \in {"newton", "stepped"}

\* the quantities R computed in that evaluation
LastQ == R_NC(tk1, xk1, FALSE).Q

\* C1: after every residual evaluation that updates the index sets, for every
\* contact i, Ci1[i] implies Bi1[i] and Bi1[i] implies Ai1[i].
C1_ActiveSetNested ==
    idx.set => \A i \in 1..nla_N :
                   (idx.C[i] => idx.B[i]) /\ (idx.B[i] => idx.A[i])

\* C1 witness: index sets updated for two contacts, one contact in all three
\* sets, another outside A although its velocity-level condition alone holds.
C1_Witness ==
    /\ EvaluatedNC /\ idx.set /\ nla_N = 2
    /\ \E i \in 1..nla_N : idx.C[i]
    /\ \E i \in 1..nla_N :
          ~idx.A[i] /\ prox_r_N[i] * LastQ.xi_Nk1[i] - LastQ.P_Nk1[i] <= 0

\* C2: every contact row of R holds exactly one quantity: level 1 g_N if i is in
\* A else kappa_hat_N, level 2 xi_N if i is in A and B else P_N, level 3
\* g_N_ddot if i is in A, B and C else la_N; no row holds both, none is unset.
C2_OneQuantityPerContactRow ==
    EvaluatedNC =>
        \A i \in 1..nla_N :
            /\ R[nR_smooth + i] =
                   IF idx.A[i]
                   THEN [v |-> LastQ.g_Nk1[i], w |-> {"g_N"}]
                   ELSE [v |-> LastQ.kappa_hatNk1[i], w |-> {"kappa_hat_N"}]
            /\ R[nR_smooth + nla_N + i] =
                   IF idx.A[i] /\ idx.B[i]
                   THEN [v |-> LastQ.xi_Nk1[i], w |-> {"xi_N"}]
                   ELSE [v |-> LastQ.P_Nk1[i], w |-> {"P_N"}]
            /\ R[nR_smooth + 2 * nla_N + i] =
                   IF idx.A[i] /\ idx.B[i] /\ idx.C[i]
                   THEN [v |-> LastQ.g_N_ddotk1[i], w |-> {"g_N_ddot"}]
                   ELSE [v |-> LastQ.la_Nk1[i], w |-> {"la_N"}]

\* C2 witness: a residual with two contacts, one row of each level written from
\* the active alternative and one from the inactive alternative.
C2_Witness ==
    /\ EvaluatedNC /\ nla_N = 2
    /\ \E i, m \in 1..nla_N :
          /\ idx.A[i] /\ idx.B[i] /\ idx.C[i]
          /\ ~idx.A[m]
          /\ R[nR_smooth + i].w = {"g_N"}
          /\ R[nR_smooth + m].w = {"kappa_hat_N"}
          /\ R[nR_smooth + 2 * nla_N + i].w = {"g_N_ddot"}
          /\ R[nR_smooth + 2 * nla_N + m].w = {"la_N"}

\* C3: when step() returns not converged, solve() raises the RuntimeError that
\* reports the iteration count and the last error; nothing happens after it: no
\* further step, no snapshot for the failed step, no Solution.
C3_NotConvergedAborts ==
    /\ [](exc = "RuntimeError_not_converged" =>
             /\ pc = "raised" /\ ~converged
             /\ report = [n_iter |-> j, error |-> error]
             /\ Len(out.t) = k + 1)
    /\ [][(pc = "stepped" /\ ~converged) =>
             /\ pc' = "raised" /\ exc' = "RuntimeError_not_converged"
             /\ out' = out /\ k' = k /\ tk' = tk /\ xk' = xk]_vars
    /\ [][pc # "raised"]_vars

\* C3 witness: the first time step was accepted and the second failed; the
\* error is raised with one snapshot recorded for the first step only.
C3_Witness ==
    /\ pc = "raised" /\ exc = "RuntimeError_not_converged"
    /\ k = 1 /\ report.n_iter = j /\ report.error = error /\ error >= cfg.tol
    /\ Len(out.t) = 2

\* C4 as stated: an iterate is converged exactly when error <= tol.
C4_ConvergedIffLeq ==
    pc \in {"newton", "stepped"} => (converged <=> error <= cfg.tol)

\* C4: step() declares an iterate converged exactly when error < tol; the
\* iteration goes on while the iterate is not converged and j < max_iter.
C4_ConvergedIffLess ==
    /\ pc \in {"newton", "stepped"} => (converged <=> error < cfg.tol)
    /\ pc = "newton" => ~converged /\ j < cfg.max_iter
    /\ pc = "stepped" => converged \/ j >= cfg.max_iter

\* C4 witness: an iterate whose error equals a positive tol is not converged.
C4_Witness ==
    pc = "stepped" /\ cfg.tol >= 1 /\ error = cfg.tol /\ ~converged

\* GenAlphaDAEAcc keeps qk and uk outside update(): solve() assigns them at
\* the end of an accepted pass
AdvanceAssignsState == cfg.cls = "Acc" /\ pc = "appended"

\* C5: residual evaluations (update with store=False) leave vk, yk, y_dotk and
\* uk unchanged: the history changes only when solve() commits an accepted step.
C5_ResidualKeepsHistory ==
    /\ [][pc' \in {"newton", "stepped"} => UNCHANGED <<vk, yk, y_dotk, uk>>]_vars
    /\ [][(pc # "new" /\ pc' # "updated" /\ ~AdvanceAssignsState) =>
              UNCHANGED <<vk, yk, y_dotk, uk>>]_vars

\* C5 witness: after Newton iterations the history still differs from what
\* update() computes for the current iterate.
C5_Witness ==
    /\ pc = "stepped" /\ j >= 1 /\ k >= 1
    /\ UpdateOf(xk1, TRUE).self.yk # yk
    /\ UpdateOf(xk1, TRUE).self.vk # vk

\* the history update(y_dotk1, store=True) commits for the stepped iterate
Stored == UpdateOf(xk1, TRUE).self

\* the attributes update(store=True) assigns
StoredAttributes == IF cfg.cls = "Acc" THEN {"a_bark"} ELSE {"vk", "yk", "y_dotk"}

\* C6: an accepted step runs in the order converged, update(store=True) once
\* (vk, yk, y_dotk take the new values; a_bark in GenAlphaDAEAcc),
\* step_callback, append, tk advanced by dt; update(store=True) is never called for a step that did not converge.
C6_AcceptedStepOrder ==
    /\ [](/\ pc = "updated" => ev = <<"update_store">>
          /\ pc = "called_back" => ev = <<"update_store", "step_callback">>
          /\ pc = "appended" => ev = <<"update_store", "step_callback", "append">>
          /\ (pc = "idle" /\ k > 0) =>
                /\ ev = <<"update_store", "step_callback", "append", "advance">>
                /\ tk = t0 + k * dt /\ Len(out.t) = k + 1
          /\ ev # <<>> => converged /\ StoredAttributes \subseteq assigned)
    /\ [][ev' # ev /\ ev' # <<>> /\ Len(ev) = 0 =>
             /\ pc = "stepped" /\ converged
             /\ vk' = Stored.vk /\ yk' = Stored.yk /\ y_dotk' = Stored.y_dotk]_vars
    /\ [][pc = "appended" => tk' = tk + dt]_vars

\* C6 witness: a second step accepted after Newton iterations, with a history
\* that changed when it was committed.
C6_Witness ==
    /\ pc = "idle" /\ k = 2 /\ j >= 1
    /\ ev = <<"update_store", "step_callback", "append", "advance">>
    /\ yk # <<cfg.q0, cfg.u0>>

\* C7 as stated: after an accepted step the multiplier history la_Nk and
\* la_Nbark is among the attributes the step committed.
C7_MultiplierHistoryCommitted ==
    (cfg.cls = "NC" /\ nla_N > 0 /\ pc = "idle" /\ k > 0) =>
        {"la_Nk", "la_Nbark"} \subseteq assigned

\* two consecutive mask evaluations of the current step gave the same masks
Stabilised(log) == \E n \in 1..(Len(log) - 1) : log[n] = log[n + 1]

\* C8 as stated: the masks are re-evaluated at each Newton iteration until two
\* consecutive evaluations agree, and not after that; so a step that ended
\* without converging, Newton iterations allowed, evaluated them at least twice.
C8_MasksReevaluatedUntilStable ==
    cfg.cls = "NC" =>
        /\ \A n \in 1..(Len(maskLog) - 1) :
               maskLog[n] = maskLog[n + 1] => Len(maskLog) = n + 1
        /\ (pc \in {"stepped", "raised"} /\ Len(maskLog) >= 1
                /\ ~converged /\ cfg.max_iter >= 1) => Len(maskLog) >= 2

\* C9 as stated: a step that needed Newton iterations and whose masks never
\* stabilised is not accepted and ends in the convergence failure.
C9_UnstableMasksFail ==
    (cfg.cls = "NC" /\ Len(maskLog) >= 1 /\ ~Stabilised(maskLog)
         /\ cfg.max_iter >= 1 /\ (j >= 1 \/ ~converged)) =>
        /\ pc \notin {"updated", "called_back", "appended"}
        /\ pc = "raised" => exc = "RuntimeError_not_converged"

\* C10 as stated: once solve() has started, the only exception that ends it is
\* the Newton convergence failure.
C10_OnlyConvergenceFailure ==
    (pc = "raised" /\ Len(out.t) >= 1) => exc = "RuntimeError_not_converged"

\* solve() has been entered (the output lists exist)
SolveEntered == Len(out.t) >= 1

\* the initial conditions satisfy every constraint the Model has
InitialConditionsConsistent ==
    /\ BilateralAssertsPass
    /\ \A i \in 1..nla_N : g_N_fn(t0, cfg.q0)[i] >= 0

\* C11 as stated: every class rejects inconsistent initial conditions in
\* __init__, so no object is constructed and no step is begun from them.
C11_InconsistentInitialConditionsRejected ==
    (pc = "constructed" \/ SolveEntered) => InitialConditionsConsistent

\* the step was accepted and update(store=True) has returned qk1, uk1
AcceptedGGL == cfg.cls \in {"NC", "GGL"} /\ pc = "updated"

\* C12: after every accepted step of a GGL-stabilised integrator each
\* component of g, g_dot and gamma at (tk1, qk1, uk1), with qk1 and uk1 as
\* update returns them for the accepted x, is smaller in absolute value than
\* the Newton tolerance.
C12_ConstraintsWithinTolerance ==
    AcceptedGGL =>
        /\ \A i \in 1..nla_g : Abs(g_fn(tk1, loc.qk1)[i]) < cfg.tol
        /\ \A i \in 1..nla_g : Abs(g_dot_fn(tk1, loc.qk1, loc.uk1)[i]) < cfg.tol
        /\ \A i \in 1..nla_gamma : Abs(gamma_fn(tk1, loc.qk1, loc.uk1)[i]) < cfg.tol

\* an accepted step whose position constraint is not exactly satisfied
C12_Witness ==
    /\ AcceptedGGL
    /\ nla_g = 1
    /\ g_fn(tk1, loc.qk1)[1] # 0

\* the initial condition, by output field
InitialEntry ==
    Entry(cfg.cls, t0,
          [qk1 |-> cfg.q0, uk1 |-> cfg.u0,
           q_dotk1 |-> q_dot_fn(t0, cfg.q0, cfg.u0), u_dotk1 |-> Init_u_dotk],
          [kappa_g |-> Zeros(nla_g), La_g |-> Zeros(nla_g),
           la_g |-> Init_la_gk, la_gamma |-> Init_la_gammak,
           mu_g |-> Zeros(nla_g), kappa_N |-> Zeros(nla_N),
           La_N |-> Zeros(nla_N), la_N |-> cfg.la_N0, a |-> <<Init_u_dotk>>])

\* the steps accepted so far whose entries have been appended
AppendedSteps == IF pc = "appended" THEN k + 1 ELSE k

\* C13: the trajectory is ordered and append-only.  Entry 0 of every output
\* list is the initial condition, all the lists of the class have the same
\* length, the number of accepted steps plus one, and a list changes only by
\* one entry being appended to it, all the lists together.
C13_TrajectoryAppendOnly ==
    /\ [](SolveEntered =>
            \A f \in OutFields(cfg.cls) :
                /\ Len(out[f]) = AppendedSteps + 1
                /\ out[f][1] = InitialEntry[f])
    /\ [][SolveEntered =>
            \/ out' = out
            \/ \A f \in OutFields(cfg.cls) :
                  /\ Len(out'[f]) = Len(out[f]) + 1
                  /\ SubSeq(out'[f], 1, Len(out[f])) = out[f]]_vars

\* two accepted steps of the contact integrator with a contact
C13_Witness ==
    /\ cfg.cls = "NC"
    /\ nla_N >= 1
    /\ pc = "appended"
    /\ Len(out.la_N) = 3
    /\ out.q[3] # out.q[1]

(***************************************************************************)
(* pack and unpack called on their own                                     *)
(***************************************************************************)
\* the dimensions of the Models pack and unpack are called for
ConfigsPack ==
    [cls : {"NC"}, numerical_jacobian : {TRUE}, tol : {1}, max_iter : {0},
     t1 : {1}, grav : {0}, nla_N : 0..MaxContacts, q0 : {0}, u0 : {0},
     la_N0 : {<<>>}, bil : {"none", "g", "gamma"}, la_b0 : {0}, drift : {0},
     DAE_index : {DefaultDAEIndex("NC")}, wrap : {FALSE},
     has_q_ddot : ModelsOf("NC")]

\* a vector of length n: first entry a, each next entry larger by d
Ramp(a, d, n) == [i \in 1..n |-> a + (i - 1) * d]

\* pack applied to the components of a record
Repacked(un) ==
    pack_NC(un.q_dot, un.u_dot, un.kappa_g, un.La_g, un.la_g, un.la_gamma,
            un.kappa_N, un.La_N, un.la_N)

\* the components unpack returns, one after the other
Concatenated(un) ==
    un.q_dot \o un.u_dot \o un.kappa_g \o un.La_g \o un.la_g \o un.la_gamma
        \o un.kappa_N \o un.La_N \o un.la_N

\* every variable of __init__ and solve() as Init leaves it
Unconstructed ==
    /\ pc = "new"
    /\ exc = "none"
    /\ report = NoReport
    /\ tk = 0 /\ xk = <<>>
    /\ yk = <<0, 0>> /\ y_dotk = <<0, 0>> /\ vk = <<0, 0>> /\ uk = 0
    /\ la_Nk = <<>> /\ la_Nbark = <<>>
    /\ idx = NoIdx
    /\ k = 0 /\ tk1 = 0 /\ xk1 = <<>>
    /\ R = <<>> /\ error = 0 /\ converged = FALSE /\ j = 0
    /\ loc = NoLoc /\ out = NoOut
    /\ ev = <<>> /\ assigned = {} /\ maskLog = <<>>

solverState == <<cfg, pc, exc, report, tk, xk, history, la_Nk, la_Nbark, idx,
                 stepLocals>>

InitPack ==
    /\ cfg \in ConfigsPack
    /\ Unconstructed
    /\ \E a \in Dom, d \in Dom :
          probe = [op |-> "x", x0 |-> Ramp(a, d, nx("NC", nla_N))]

\* un = unpack(x0)
UnpackFirst ==
    /\ probe.op = "x"
    /\ probe' = [op |-> "unpacked", x0 |-> probe.x0, un |-> unpack_NC(probe.x0)]
    /\ UNCHANGED solverState

\* x = pack(*un)
PackAgain ==
    /\ probe.op = "unpacked"
    /\ probe' = [op |-> "packed", x0 |-> probe.x0, un |-> probe.un,
                 x |-> Repacked(probe.un)]
    /\ UNCHANGED solverState

\* un2 = unpack(x)
UnpackAgain ==
    /\ probe.op = "packed"
    /\ probe' = [op |-> "unpacked_again", x0 |-> probe.x0, un |-> probe.un,
                 x |-> probe.x, un2 |-> unpack_NC(probe.x)]
    /\ UNCHANGED solverState

NextPack ==
    \/ UnpackFirst
    \/ PackAgain
    \/ UnpackAgain

SpecPack == InitPack /\ [][NextPack]_vars

\* C14: pack and unpack are inverse to each other, and unpack's slices take
\* every entry of the vector exactly once: the components of a vector, one
\* after the other, are the vector; packing them gives the vector back; and
\* unpacking what pack returned gives the components that were packed.
C14_PackUnpackInverse ==
    /\ probe.op \in {"unpacked", "packed", "unpacked_again"} =>
          Concatenated(probe.un) = probe.x0
    /\ probe.op \in {"packed", "unpacked_again"} =>
          /\ Len(probe.x) = nx("NC", nla_N)
          /\ probe.x = probe.x0
    /\ probe.op = "unpacked_again" => probe.un2 = probe.un

\* a round trip on a Model with bilateral constraints and two contacts, for
\* a vector whose entries all differ
C14_Witness ==
    /\ probe.op = "unpacked_again"
    /\ nla_N = 2
    /\ nla_g = 1
    /\ probe.x0[1] # probe.x0[2]

(***************************************************************************)
(* R called on its own with update_index_set=False, between the steps of   *)
(* solve(), once self.Ai1, self.Bi1, self.Ci1 exist                        *)
(***************************************************************************)
\* where solve() stands: no action of solve() leaves all three unchanged
Position == <<pc, k, j>>

\* R(tk1, xk1, update_index_set=False), and the same call again
FrozenResidual ==
    /\ EvaluatedNC
    /\ \/ probe.op = "none"
       \/ probe.op = "R_once" /\ probe.at = Position
    /\ LET r == R_NC(tk1, xk1, FALSE)
       IN /\ vk' = r.self.vk /\ yk' = r.self.yk
          /\ y_dotk' = r.self.y_dotk /\ uk' = r.self.uk
          /\ idx' = r.idx
          /\ probe' = IF probe.op = "none"
                      THEN [op |-> "R_once", at |-> Position, R1 |-> Values(r.R)]
                      ELSE [op |-> "R_twice", at |-> Position, R1 |-> probe.R1,
                            R2 |-> Values(r.R)]
    /\ UNCHANGED <<cfg, pc, exc, report, tk, xk, la_Nk, la_Nbark, stepLocals>>

NextR ==
    \/ Next
    \/ FrozenResidual

SpecR == Init /\ [][NextR]_vars

\* C15: with the masks frozen, R called twice with the same (t, x) returns
\* the same vector, and a call changes nothing the next call reads: the
\* history of update(), the multiplier history, the masks, self.tk, self.xk.
C15_FrozenResidualRepeatable ==
    /\ [](probe.op = "R_twice" => probe.R2 = probe.R1)
    /\ [][probe' # probe =>
            UNCHANGED <<yk, y_dotk, vk, uk, la_Nk, la_Nbark, idx, tk, xk>>]_vars

\* two calls on a Model with a contact, with a residual that is not zero
C15_Witness ==
    /\ probe.op = "R_twice"
    /\ nla_N >= 1
    /\ \E i \in 1..Len(probe.R1) : probe.R1[i] # 0
    /\ \E i \in 1..nla_N : ~idx.A[i]

(***************************************************************************)
(* Revolute.angle, a Model-side evaluation (constraints/revolute.py).      *)
(* The projections x, y of the second body's axis are drawn from -1..1, so *)
(* every arctan is 0 or pi/4 and the angle is counted in units of pi/4.    *)
(***************************************************************************)
\* the projections (x, y) that (t, q) can produce
Projections == (-1..1) \X (-1..1)

\* _compute_quadrant(x, y); 0 stands for the RuntimeError
compute_quadrant(x, y) ==
    IF x > 0 /\ y >= 0 THEN 1
    ELSE IF x <= 0 /\ y > 0 THEN 2
    ELSE IF x < 0 /\ y <= 0 THEN 3
    ELSE IF x >= 0 /\ y < 0 THEN 4
    ELSE 0

\* np.arctan(num / den) in units of pi/4, for num = 0 or num = den
ArctanRatio(num, den) == IF num = 0 THEN 0 ELSE 1

\* a counter that takes every passage between the quadrants 1 and 4 as a
\* forward rotation
angle_rotations_unsigned(previous_quadrant, quadrant, n_full_rotations) ==
    IF {previous_quadrant, quadrant} = {1, 4} THEN n_full_rotations + 1
    ELSE n_full_rotations

\* n_full_rotations after the check for a full rotation
angle_rotations(previous_quadrant, quadrant, n_full_rotations) ==
    IF previous_quadrant = 4 /\ quadrant = 1 THEN n_full_rotations + 1
    ELSE IF previous_quadrant = 1 /\ quadrant = 4 THEN n_full_rotations - 1
    ELSE n_full_rotations

\* the rotation angle without singularities, in units of pi/4
angle_value(n, quadrant, x, y) ==
    8 * n + (IF quadrant = 1 THEN ArctanRatio(y, x)
             ELSE IF quadrant = 2 THEN 2 + ArctanRatio(-x, y)
             ELSE IF quadrant = 3 THEN 4 + ArctanRatio(-y, -x)
             ELSE 6 + ArctanRatio(x, -y))

\* the most reset() calls followed on one Revolute
MaxResets == 1

\* assembler_callback() has run; no angle() call yet.  calls lists the
\* angle() calls since assembler_callback() or the last reset().
InitRevolute ==
    /\ cfg \in {c \in ConfigsPack : c.nla_N = 0 /\ c.bil = "none"}
    /\ Unconstructed
    /\ probe = [op |-> "revolute", n_full_rotations |-> 0,
                previous_quadrant |-> 1, calls |-> <<>>, resets |-> 0]

\* angle(t, q) for a (t, q) with the projections xy
Angle ==
    /\ probe.op = "revolute"
    /\ Len(probe.calls) < MaxCalls
    /\ \E xy \in Projections :
          LET quadrant == compute_quadrant(xy[1], xy[2])
              n == angle_rotations(probe.previous_quadrant, quadrant,
                                   probe.n_full_rotations)
          IN /\ quadrant # 0
             /\ probe' = [op |-> "revolute", n_full_rotations |-> n,
                          previous_quadrant |-> quadrant,
                          resets |-> probe.resets,
                          calls |-> Append(probe.calls,
                                           [xy |-> xy,
                                            angle |-> angle_value(n, quadrant,
                                                                  xy[1], xy[2])])]
    /\ UNCHANGED solverState

\* angle(t, q) where both projections vanish: _compute_quadrant raises
AngleRaises ==
    /\ probe.op = "revolute"
    /\ Len(probe.calls) < MaxCalls
    /\ \E xy \in Projections : compute_quadrant(xy[1], xy[2]) = 0
    /\ probe' = [probe EXCEPT !.op = "RuntimeError"]
    /\ UNCHANGED solverState

\* reset(): n_full_rotations = 0, previous_quadrant = 1
Reset ==
    /\ probe.op = "revolute"
    /\ probe.resets < MaxResets
    /\ probe' = [op |-> "revolute", n_full_rotations |-> 0,
                 previous_quadrant |-> 1, calls |-> <<>>,
                 resets |-> probe.resets + 1]
    /\ UNCHANGED solverState

NextRevolute ==
    \/ Angle
    \/ AngleRaises
    \/ Reset

SpecRevolute == InitRevolute /\ [][NextRevolute]_vars

\* C16 as stated: two angle() calls with the same (t, q) return the same
\* value, whichever calls were made before or in between.
C16_AngleIndependentOfHistory ==
    probe.op \in {"revolute", "RuntimeError"} =>
        \A a, b \in 1..Len(probe.calls) :
            probe.calls[a].xy = probe.calls[b].xy =>
                probe.calls[a].angle = probe.calls[b].angle

\* C17 as stated: for a Model without contacts the contact blocks of the
\* residual are empty (R has the nR_smooth rows only) and solve() never
\* computes the masks A, B, C.
C17_NoContactsNoActiveSet ==
    (cfg.cls = "NC" /\ nla_N = 0 /\ SolveEntered) =>
        /\ pc \in {"newton", "stepped"} => Len(R) = nR_smooth
        /\ ~idx.set
        /\ maskLog = <<>>

\* the quantities written to the rows of R after the equations of motion
\* and, in the contact integrator, before the contact blocks
ConstraintRows ==
    UNION {R[r].w : r \in (nq + nu + 1)..(IF cfg.cls = "NC" THEN nR_smooth ELSE Len(R))}

\* the constraint level DAE_index stands for
SelectedLevel(DAE_index) ==
    IF DAE_index = 3 THEN {"g", "gamma"}
    ELSE IF DAE_index = 2 THEN {"g_dot", "gamma"}
    ELSE {"g_ddot", "gamma_dot"}

\* the quantities of a level that the Model has rows for
PresentRows(level) ==
    {w \in level : IF w \in {"g", "g_dot", "g_ddot"} THEN nla_g > 0
                   ELSE nla_gamma > 0}

\* C18 as stated: the residual of an integrator that accepts DAE_index holds
\* the bilateral constraints on the level the argument selects, 3: g and
\* gamma, 2: g_dot and gamma, 1: g_ddot and gamma_dot, so that residuals for
\* different admissible values hold different constraint rows.
C18_DAEIndexSelectsRows ==
    (AcceptsDAEIndex(cfg.cls) /\ pc \in {"newton", "stepped"}) =>
        ConstraintRows = PresentRows(SelectedLevel(cfg.DAE_index))

\* C19 as stated: with numerical_jacobian=False a run fails only where the
\* run with the finite-difference Jacobian fails too: construction raises
\* nothing but the asserts on its arguments, and in solve() a step ends the
\* run only by not converging or by an exception that the finite-difference
\* setting raises as well.
C19_AnalyticJacobianNeverFailsAlone ==
    (~cfg.numerical_jacobian /\ pc = "raised") =>
        IF SolveEntered
        THEN exc \in {"RuntimeError_not_converged", FirstResidualOutcome(cfg.cls),
                      JacobianOutcome(cfg.cls, TRUE)}
        ELSE exc = "AssertionError"

\* step() is inside its Newton loop
InNewtonLoop == pc = "newton"

\* one pass through the body of the loop: it builds the Jacobian and updates
\* x, or building the Jacobian raises
LoopPass == NewtonUpdate \/ JacobianRaises

\* solve() under the scheduling of a sequential program: the interpreter
\* does not stop inside the loop of step(), so a run that stays in the loop
\* passes through its body again and again (weak fairness of LoopPass, which
\* is enabled wherever InNewtonLoop holds)
SpecLive ==
    Init /\ [][Next]_vars /\ (<>[]InNewtonLoop => []<><<LoopPass>>_vars)

\* step() has returned, or an exception has left it
StepLeft == pc \in {"stepped", "raised"}

\* C20: step() always terminates.  The iteration count stays in
\* 0..max_iter and changes only by one Newton update adding one to it (or by
\* the next step starting at 0); a step whose first residual satisfies the
\* tolerance returns at once with j = 0; inside the loop one more update is
\* still allowed; and the loop is always left.
C20_StepTerminates ==
    /\ [](0 <= j /\ j <= cfg.max_iter)
    /\ [](InNewtonLoop => j < cfg.max_iter /\ ~converged)
    /\ [][j' # j => \/ InNewtonLoop /\ j' = j + 1
                    \/ pc = "idle" /\ j' = 0]_vars
    /\ [][(pc = "idle" /\ pc' \in {"newton", "stepped"} /\ converged') =>
              (pc' = "stepped" /\ j' = 0)]_vars
    /\ (InNewtonLoop ~> StepLeft)

\* a step that returned after using every allowed Newton update
C20_Witness ==
    /\ pc = "stepped"
    /\ cfg.max_iter = MaxIter
    /\ j = MaxIter
    /\ ~converged

(***************************************************************************)
(* Solution and its iterator (solver/solution.py).  A field is a record    *)
(* [none, v]: none says the attribute is None, v is the array otherwise.   *)
(***************************************************************************)
\* an attribute that is None
NoneField == [none |-> TRUE, v |-> <<>>]

\* an attribute holding the array v
ArrayField(v) == [none |-> FALSE, v |-> v]

\* the Solutions iterated: t and q as solve() returns them, u given or None,
\* la_F never given
Solutions ==
    UNION {
        {[t |-> ArrayField(Ramp(t0, dt, n)), q |-> ArrayField(Ramp(a, d, n)),
          u |-> u, la_F |-> NoneField] :
            a \in Dom, d \in Dom,
            u \in {NoneField} \cup {ArrayField(Ramp(b, 1, n)) : b \in Dom}}
        : n \in 0..MaxLen}

\* SolutionIterator.__next__: the test with one entry too few
HasNext_short(index, sol) == index + 1 < Len(sol.t.v)

\* SolutionIterator.__next__: if self._index < len(self._solution.t)
HasNext(index, sol) == index < Len(sol.t.v)

\* SolutionIterator.__next__: the namedtuple built at self._index
Result(sol, index) ==
    [key \in DOMAIN sol |->
        IF ~sol[key].none
        THEN [none |-> FALSE, v |-> sol[key].v[index + 1]]
        ELSE [none |-> TRUE, v |-> 0]]

\* SolutionIterator.__init__
NewIterator == [index |-> 0, yielded |-> <<>>, stopped |-> FALSE]

\* a Solution exists, no iterator yet
InitIter ==
    /\ cfg \in {c \in ConfigsPack : c.nla_N = 0 /\ c.bil = "none"}
    /\ Unconstructed
    /\ \E sol \in Solutions : probe = [op |-> "solution", sol |-> sol, its |-> <<>>]

\* iter(solution): Solution.__iter__
Iter ==
    /\ probe.op = "solution"
    /\ Len(probe.its) < 2
    /\ probe' = [probe EXCEPT !.its = Append(@, NewIterator)]
    /\ UNCHANGED solverState

\* next(it) returning a snapshot
NextSnapshot ==
    /\ probe.op = "solution"
    /\ \E i \in 1..Len(probe.its) :
          /\ HasNext(probe.its[i].index, probe.sol)
          /\ probe' = [probe EXCEPT
                          !.its[i].yielded =
                              Append(@, Result(probe.sol, probe.its[i].index)),
                          !.its[i].index = @ + 1]
    /\ UNCHANGED solverState

\* next(it) raising StopIteration
NextStops ==
    /\ probe.op = "solution"
    /\ \E i \in 1..Len(probe.its) :
          /\ ~HasNext(probe.its[i].index, probe.sol)
          /\ ~probe.its[i].stopped
          /\ probe' = [probe EXCEPT !.its[i].stopped = TRUE]
    /\ UNCHANGED solverState

NextIter ==
    \/ Iter
    \/ NextSnapshot
    \/ NextStops

SpecIter == InitIter /\ [][NextIter]_vars

\* entry k (counted from 0) of every field, None for a field that is None
SnapshotOf(sol, kk) ==
    [key \in DOMAIN sol |->
        IF sol[key].none THEN [none |-> TRUE, v |-> 0]
        ELSE [none |-> FALSE, v |-> sol[key].v[kk + 1]]]

\* C21: iterating a Solution yields exactly len(t) snapshots in increasing
\* index order, snapshot k holding entry k of every field and None for a
\* field that is None, and then stops; iter() starts a new iterator at
\* index 0, and iterators are independent: a step of one leaves the others
\* as they are.
C21_IterationYieldsEverySnapshot ==
    /\ [](probe.op = "solution" =>
            \A i \in 1..Len(probe.its) :
                LET it == probe.its[i]
                IN /\ it.index <= Len(probe.sol.t.v)
                   /\ it.yielded = [n \in 1..it.index |-> SnapshotOf(probe.sol, n - 1)]
                   /\ it.stopped => it.index = Len(probe.sol.t.v))
    /\ [][probe.op = "solution" =>
            /\ probe'.sol = probe.sol
            /\ Len(probe'.its) > Len(probe.its) =>
                  /\ probe'.its[Len(probe'.its)] = NewIterator
                  /\ SubSeq(probe'.its, 1, Len(probe.its)) = probe.its
            /\ Len(probe'.its) = Len(probe.its) =>
                  Cardinality({i \in 1..Len(probe.its) :
                                  probe'.its[i] # probe.its[i]}) <= 1]_vars

\* two iterators over a Solution of MaxLen snapshots with u None: one has
\* yielded everything and stopped, the other stands at its first snapshot
C21_Witness ==
    /\ probe.op = "solution"
    /\ Len(probe.sol.t.v) = MaxLen
    /\ probe.sol.u.none
    /\ probe.sol.q.v[1] # probe.sol.q.v[2]
    /\ Len(probe.its) = 2
    /\ probe.its[1].stopped
    /\ probe.its[2].index = 1

(***************************************************************************)
(* The residual evaluations of the finite-difference Jacobian of step():   *)
(* approx_fprime evaluates its lambda at xk1 and at xk1 with one entry     *)
(* perturbed, and the lambda passes update_index_set=False. The lambda     *)
(* reaches the residual through self.__R, whose generator is not defined   *)
(* (JacobianOutcome), so step() itself leaves the loop by JacobianRaises;  *)
(* the evaluation below is the residual R with the arguments of the lambda. *)
(***************************************************************************)
\* the update_index_set that __R_x_num passes to the residual
FD_update_index_set_on == TRUE

\* the update_index_set that the lambda of step() passes to the residual
FD_update_index_set == FALSE

\* the points approx_fprime evaluates: xk1 (c = 0) and xk1 with entry c raised
FD_point(x, c) == IF c = 0 THEN x ELSE Shifted(x, c)

\* what an evaluation at point c leaves behind: r is what R returned and left
FD_evaluated(c, r) ==
    /\ vk' = r.self.vk /\ yk' = r.self.yk
    /\ y_dotk' = r.self.y_dotk /\ uk' = r.self.uk
    /\ idx' = r.idx
    /\ probe' = [op |-> "R_fd", at |-> Position, c |-> c, R1 |-> r.R]

\* R(tk1, x, update_index_set=False) at a point of approx_fprime
FiniteDifferenceResidual ==
    /\ cfg.cls = "NC"
    /\ InNewtonLoop
    /\ probe.op = "none"
    /\ \E c \in 0..Len(xk1) :
          FD_evaluated(c, R_NC(tk1, FD_point(xk1, c), FD_update_index_set))
    /\ UNCHANGED <<cfg, pc, exc, report, tk, xk, la_Nk, la_Nbark, stepLocals>>

NextFD ==
    \/ Next
    \/ FiniteDifferenceResidual

SpecFD == Init /\ [][NextFD]_vars

C23_WarmStartFromAcceptedX ==
    /\ [][(pc = "idle" /\ pc' \in {"newton", "stepped"}) =>
              (xk1' = xk /\ xk' = xk)]_vars
    /\ [][InNewtonLoop => xk' = xk]_vars
    /\ [][(pc # "new" /\ xk' # xk) => (pc = "appended" /\ xk' = xk1)]_vars

\* the second step, started from the x accepted at the first, has moved its
\* working vector by a Newton update
C23_Witness ==
    /\ k = 1
    /\ pc = "stepped"
    /\ j >= 1
    /\ converged
    /\ xk1 # xk
    /\ Len(out.t) = 2

\* solve() has raised the convergence failure
ConvergenceFailure == pc = "raised" /\ exc = "RuntimeError_not_converged"

\* the last entry of an output list
LastOf(list) == list[Len(list)]

\* the committed unknowns are those of the last recorded snapshot: the
\* derivatives q_dot, u_dot where x begins with them, q and u in
\* GenAlphaFirstOrderPosition, q, u and a in GenAlphaDAEAcc
CommittedIsLastSnapshot ==
    IF cfg.cls \in {"NC", "GGL", "Vel"}
    THEN /\ y_dotk = <<LastOf(out.q_dot), LastOf(out.u_dot)>>
         /\ Slice(xk, 0, ny) = y_dotk
    ELSE IF cfg.cls = "FOPos"
    THEN /\ yk = <<LastOf(out.q), LastOf(out.u)>>
         /\ Slice(xk, 0, ny) = yk
    ELSE /\ yk = <<LastOf(out.q), LastOf(out.u)>>
         /\ Slice(xk, 0, nu) = LastOf(out.a)

\* C24: when solve() raises the convergence failure at step k+1, the
\* committed state tk, xk, yk, y_dotk, vk is that of the last accepted step
\* k: the failed step, from its first residual to the raise, has changed none
\* of them, tk is the time of the last recorded snapshot, and the committed
\* unknowns are the ones recorded there.
C24_FailureKeepsCommittedState ==
    /\ [][(pc' \in {"newton", "stepped"} \/ (pc' = "raised" /\ SolveEntered)) =>
              UNCHANGED <<tk, xk, yk, y_dotk, vk>>]_vars
    /\ [](ConvergenceFailure =>
             /\ Len(out.t) = k + 1
             /\ tk = t0 + k * dt
             /\ tk = LastOf(out.t)
             /\ CommittedIsLastSnapshot)

\* the failure at the second step, after the first step was accepted and
\* moved the committed state away from the initial one
C24_Witness ==
    /\ ConvergenceFailure
    /\ k = 1
    /\ error >= cfg.tol
    /\ yk # <<cfg.q0, cfg.u0>>

(***************************************************************************)
(* Integrators constructed with any t1, t1 <= t0 included                  *)
(***************************************************************************)
\* the constructor arguments of Configs, and the same with t1 = t0 and with
\* t1 = t0 - 1
ConfigsAnyT1 ==
    Configs \cup {[c EXCEPT !.t1 = t] : c \in Configs, t \in {t0 - 1, t0}}

InitAnyT1 ==
    /\ cfg \in ConfigsAnyT1
    /\ Unconstructed
    /\ probe = NoProbe

\* solve(): the output lists are built, then np.arange(self.t0, self.t1,
\* self.dt) with the stored exception object as its stop raises TypeError
SolveBeginRaises ==
    /\ pc = "constructed"
    /\ IntegrationTime(cfg.t1) # "number"
    /\ pc' = "raised"
    /\ exc' = "TypeError"
    /\ out' = InitialLists
    /\ UNCHANGED <<probe, cfg, report, tk, xk, history, la_Nk, la_Nbark, idx,
                   k, tk1, xk1, R, error, converged, j, loc, ev, assigned, maskLog>>

NextAnyT1 ==
    \/ Next
    \/ SolveBeginRaises

SpecAnyT1 == InitAnyT1 /\ [][NextAnyT1]_vars

\* C25 as stated: with t1 <= t0 the constructor raises ValueError: nothing
\* is constructed and no step is taken.
C25_NonPositiveSpanRejected ==
    (cfg.t1 <= t0 /\ pc # "new") => (pc = "raised" /\ exc = "ValueError")

(***************************************************************************)
(* Integrators on a Model whose step_callback re-wraps its coordinate      *)
(***************************************************************************)
\* the body with that step_callback, TimoshenkoAxisAngleSE3, defines q_ddot
ConfigsWrap == {[c EXCEPT !.wrap = TRUE] : c \in {d \in Configs : d.has_q_ddot}}

InitWrap ==
    /\ cfg \in ConfigsWrap
    /\ Unconstructed
    /\ probe = NoProbe

SpecWrap == InitWrap /\ [][Next]_vars

\* C26 as stated: after every accepted step the (q, u) recorded for it is the
\* state the integrator carries into the next step, yk split into q and u,
\* whatever model.step_callback changed.
C26_RecordedStateIsCarriedState ==
    (pc = "idle" /\ k >= 1) => yk = <<LastOf(out.q), LastOf(out.u)>>

\* C27 as stated: in the contact integrator the previous-step velocity uk
\* that R hands to model.xi_N during the next step is the velocity u of the
\* accepted step, the velocity part of the committed yk that was recorded.
C27_PreviousVelocityIsAcceptedVelocity ==
    (cfg.cls = "NC" /\ pc = "idle" /\ k >= 1) =>
        (uk = yk[nq + 1] /\ uk = LastOf(out.u))

\* C28: solve() attempts one step per grid point of [t0, t1) with spacing
\* dt, N = ceil((t1 - t0) / dt) steps: the k-th snapshot has time t0 + k dt,
\* every step is a full dt, and after the return the last recorded time is
\* t0 + N dt >= t1, N being the least number of steps that reaches t1.
C28_OneFullStepPerGridPoint ==
    /\ \A i \in 1..Len(out.t) : out.t[i] = t0 + (i - 1) * dt
    /\ pc \in {"newton", "stepped", "updated", "appended"} => tk1 = tk + dt
    /\ SolveEntered => (tk = t0 + k * dt /\ t0 + k * dt < cfg.t1 + dt)
    /\ pc = "returned" =>
          /\ Len(out.t) = k + 1
          /\ LastOf(out.t) = t0 + k * dt
          /\ t0 + k * dt >= cfg.t1
          /\ t0 + (k - 1) * dt < cfg.t1

\* a run over a span that is no multiple of dt has returned past t1
C28_Witness ==
    /\ pc = "returned"
    /\ k = 2
    /\ cfg.t1 = t0 + dt + 1
    /\ LastOf(out.t) = cfg.t1 + 1

(***************************************************************************)
(* The rotation counter of Revolute as a state machine                     *)
(***************************************************************************)
\* the quadrant of the i-th angle() call since the counter was last set up
QuadrantOf(i) ==
    compute_quadrant(probe.calls[i].xy[1], probe.calls[i].xy[2])

\* the quadrant angle() compares the i-th call's quadrant with
PreviousOf(i) == IF i = 1 THEN 1 ELSE QuadrantOf(i - 1)

\* the number of calls that went from one quadrant into another
Transitions(from, to) ==
    Cardinality({i \in 1..Len(probe.calls) :
                    PreviousOf(i) = from /\ QuadrantOf(i) = to})

\* the calls made are a sequence of (t, q) followed by its reverse
SequenceThenReverse ==
    /\ Len(probe.calls) >= 2
    /\ Len(probe.calls) % 2 = 0
    /\ \A i \in 1..Len(probe.calls) :
          probe.calls[i].xy = probe.calls[Len(probe.calls) + 1 - i].xy

\* previous_quadrant is the quadrant of the last call, n_full_rotations the
\* 4-to-1 passages minus the 1-to-4 passages
CounterTracksCalls ==
    probe.op = "revolute" =>
        /\ probe.previous_quadrant =
              (IF probe.calls = <<>> THEN 1 ELSE QuadrantOf(Len(probe.calls)))
        /\ probe.n_full_rotations = Transitions(4, 1) - Transitions(1, 4)

\* C29 as stated: previous_quadrant is the quadrant of the most recent
\* angle() call (1 after assembler_callback or reset), n_full_rotations is
\* the number of 4-to-1 passages minus the number of 1-to-4 passages, and a
\* sequence of calls followed by its reverse returns n_full_rotations to its
\* starting value.
C29_ReverseReturnsToStart ==
    /\ CounterTracksCalls
    /\ (probe.op = "revolute" /\ SequenceThenReverse) =>
          probe.n_full_rotations = 0

\* C29 amended: previous_quadrant is the quadrant of the most recent angle()
\* call (1 after assembler_callback or reset); angle() changes
\* n_full_rotations by +1 exactly on a passage from 4 to 1, by -1 exactly on
\* a passage from 1 to 4, so that it is the difference of the two counts
\* since the last reset; a sequence followed by its reverse returns it to the
\* value it had after the first call of the sequence.
C29_CounterIsSignedPassageCount ==
    /\ []CounterTracksCalls
    /\ []((probe.op = "revolute" /\ SequenceThenReverse) =>
            probe.n_full_rotations = angle_rotations(1, QuadrantOf(1), 0))
    /\ [][(probe.op = "revolute" /\ probe'.op = "revolute"
           /\ probe'.resets = probe.resets) =>
            /\ (probe'.n_full_rotations = probe.n_full_rotations + 1) <=>
                  (probe.previous_quadrant = 4 /\ probe'.previous_quadrant = 1)
            /\ (probe'.n_full_rotations = probe.n_full_rotations - 1) <=>
                  (probe.previous_quadrant = 1 /\ probe'.previous_quadrant = 4)
            /\ probe'.n_full_rotations - probe.n_full_rotations \in {-1, 0, 1}]_vars

\* a sequence that starts in quadrant 4, passes into quadrant 1 and is then
\* reversed: the counter ends at -1, not at its starting value 0
C29_Witness ==
    /\ probe.op = "revolute"
    /\ Len(probe.calls) = 4
    /\ SequenceThenReverse
    /\ QuadrantOf(1) = 4
    /\ QuadrantOf(2) = 1
    /\ probe.n_full_rotations = -1

(***************************************************************************)
(* fsolve, the Newton iteration of cardillo.math (math/fsolve.py), for a   *)
(* scalar unknown.  fun is x |-> a x + b and jac a callable that returns   *)
(* the constant slope s, exact only if s = a, so that the iteration may    *)
(* converge at once, after some updates, or never.  error_function is the  *)
(* default, the largest absolute value; linear_solver(J, f) is f / J.      *)
(***************************************************************************)
\* fun(x, *fun_args)
fun(a, b, x) == a * x + b

\* error_function(f) = np.max(np.absolute(f))
error_function(f) == Abs(f)

\* linear_solver(J, f) = f / J, which is f * J for the 1 x 1 matrix J of 1 or -1
linear_solver(J, f) == f * J

\* a convergence test that leaves out error = atol
fsolve_converged_strict(err, atol) == err < atol

\* converged = error <= atol
fsolve_converged(err, atol) == err <= atol

\* the caller's array after x = np.atleast_1d(x0).copy() and x -= ...
CallerArray(x0, x) == x0

\* the calls fsolve(fun, x0, jac, atol=atol, max_iter=max_iter)
FsolveCalls ==
    [op : {"fsolve"}, pos : {"called"},
     a : 0..2, b : -ValMax..ValMax, s : {-1, 1},
     x0 : -ValMax..ValMax, atol : 0..MaxTol, max_iter : 0..MaxIter,
     x : {0}, f : {0}, error : {0}, error0 : {0}, converged : {FALSE},
     i : {0}, jacs : {0}, xs : {<<>>}, warned : {FALSE}]

InitFsolve ==
    /\ cfg \in {c \in ConfigsPack : c.nla_N = 0 /\ c.bil = "none"}
    /\ Unconstructed
    /\ probe \in FsolveCalls

\* the copy of x0, the initial residual, error and convergence, i = 0
FsolveBegin ==
    /\ probe.op = "fsolve"
    /\ probe.pos = "called"
    /\ LET f0 == fun(probe.a, probe.b, probe.x0)
       IN probe' = [probe EXCEPT
                      !.pos = "loop", !.x = probe.x0, !.f = f0,
                      !.error = error_function(f0),
                      !.error0 = error_function(f0),
                      !.converged = fsolve_converged(error_function(f0), probe.atol),
                      !.i = 0]
    /\ UNCHANGED solverState

\* the condition of the Newton loop
fsolve_continues == (~probe.converged) /\ probe.i < probe.max_iter

\* one pass of the Newton loop: Jacobian, in-place update of x, residual,
\* error and convergence
FsolveIterate ==
    /\ probe.op = "fsolve"
    /\ probe.pos = "loop"
    /\ fsolve_continues
    /\ LET x1 == probe.x - linear_solver(probe.s, probe.f)
           f1 == fun(probe.a, probe.b, x1)
       IN probe' = [probe EXCEPT
                      !.i = probe.i + 1, !.jacs = probe.jacs + 1,
                      !.x = x1, !.x0 = CallerArray(probe.x0, x1),
                      !.xs = Append(probe.xs, x1), !.f = f1,
                      !.error = error_function(f1),
                      !.converged = fsolve_converged(error_function(f1), probe.atol)]
    /\ UNCHANGED solverState

\* the loop is left: a warning if not converged, then
\* return x, converged, error, i, f
FsolveReturn ==
    /\ probe.op = "fsolve"
    /\ probe.pos = "loop"
    /\ ~fsolve_continues
    /\ probe' = [probe EXCEPT !.pos = "returned", !.warned = ~probe.converged]
    /\ UNCHANGED solverState

NextFsolve ==
    \/ FsolveBegin
    \/ FsolveIterate
    \/ FsolveReturn

SpecFsolve == InitFsolve /\ [][NextFsolve]_vars

\* C30: fsolve never stops short of its return: it makes at most max_iter
\* updates, one Jacobian each, and leaves the caller's x0 as it was; it
\* returns converged = TRUE iff the last evaluated error is <= atol, and the
\* number i of updates made, which is 0 (no Jacobian) if the initial guess
\* meets the tolerance and max_iter, with a warning only, if it never
\* converges.
C30_FsolveAlwaysReturns ==
    probe.op = "fsolve" =>
        /\ probe.pos \in {"called", "loop", "returned"}
        /\ probe.pos # "returned" => ENABLED NextFsolve
        /\ probe.i <= probe.max_iter
        /\ probe.i = Len(probe.xs)
        /\ probe.jacs = probe.i
        /\ probe.pos # "called" =>
              probe.error0 = Abs(fun(probe.a, probe.b, probe.x0))
        /\ probe.pos = "returned" =>
              /\ probe.f = fun(probe.a, probe.b, probe.x)
              /\ probe.error = Abs(probe.f)
              /\ probe.converged <=> probe.error <= probe.atol
              /\ probe.error0 <= probe.atol => (probe.i = 0 /\ probe.jacs = 0)
              /\ probe.converged => ~probe.warned
              /\ (~probe.converged) => (probe.i = probe.max_iter /\ probe.warned)

\* a call that used up max_iter >= 2 updates without converging and returned
\* with a warning
C30_Witness ==
    /\ probe.op = "fsolve"
    /\ probe.pos = "returned"
    /\ probe.max_iter >= 2
    /\ probe.i = probe.max_iter
    /\ ~probe.converged
    /\ probe.warned
    /\ probe.x # probe.x0

====
